---- MODULE Spec2Model ----
(***************************************************************************)
(* Bulk record enumeration and deletion engine (deleter/core.py).          *)
(*                                                                         *)
(* The engine is single-threaded: a program counter pc names the position  *)
(* of the one running operation.  Every remote call is one step, because   *)
(* its outcome (a response or a classified HubspotError) is chosen by the  *)
(* remote.  Record ids are decimal strings in the code; they are held here *)
(* by their numeric value, and a record dict {"id": x} by its id.  An      *)
(* absent cursor (None) is 0.                                              *)
(*                                                                         *)
(* The literals of the code are scaled down, keeping their order:          *)
(* PAGE_LIMIT (200) < LEG_CAP (10000), LEG_CAP a multiple of PAGE_LIMIT.   *)
(***************************************************************************)
EXTENDS Integers, Sequences, FiniteSets, TLC

VARIABLES
    op,              \* the caller-facing operation in progress
    pc,              \* position of the running operation
    remote,          \* "honest": answers from the store; "arbitrary": any answer
    store,           \* remote store: per category, the ids of its records
    matching,        \* remote store: per category, the ids that satisfy the caller's predicates
    totalCapped,     \* whether the remote reports total capped at LEG_CAP
    query,           \* delete_by_query: query
    csv_file,        \* delete_from_csv: the file named by csv_file
    id_column,       \* delete_from_csv: id_column
    outcome,         \* HubspotClient: what the transport gives for the request
    value,           \* _apply_mapping: value
    mapping,         \* _apply_mapping: mapping, its items in insertion order
    case_sensitive,  \* _apply_mapping: case_sensitive
    object_type,     \* category of the running enumeration / deletion
    object_types,    \* delete_by_date_criteria: categories the for loop has yet to process
    created_after,   \* delete_by_date_criteria: created_after
    modified_after,  \* delete_by_date_criteria: modified_after
    deletion_counts, \* delete_by_date_criteria: deletion_counts
    filters,         \* _search_records: the caller's predicate list
    all_records,     \* _search_records: all_records
    last_record_id,  \* _search_records: last_record_id (the threshold)
    total,           \* _search_records: total of the leg's first response
    search_payload,  \* _search_records: payload of the current leg
    batch_records,   \* _process_search_batch: batch_records
    last_id,         \* _process_search_batch: last_id
    after,           \* _process_search_batch: after
    legs,            \* history: one entry per drained leg
    list_records,    \* _get_all_records_by_type: all_records
    list_after,      \* _get_all_records_by_type: after
    records,         \* _delete_records: records
    i,               \* _delete_records: offset of the current chunk
    j,               \* _delete_records: records of the chunk already retried one by one
    deleted_count,   \* _delete_records: deleted_count
    calls,           \* history: every remote call issued, in order
    _instance,       \* LoggerConfig._instance (None, or the one instance)
    _initialized,    \* LoggerConfig._initialized
    handlers,        \* handlers of the 'migrator' logger, in order
    level,           \* level of the 'migrator' logger
    log_calls,       \* history: constructions and setup_logging calls
    _deleter_instance, \* core._deleter_instance (None, or the ordinal of an instance)
    constructed,     \* HubSpotDeleter instances constructed so far
    self,            \* the instance the running method was called on
    result           \* value returned to the caller, or the error raised

searchVars == <<filters, all_records, last_record_id, total, search_payload,
                batch_records, last_id, after, legs>>
listVars == <<list_records, list_after>>
deleteVars == <<records, i, j, deleted_count>>
\* the remote and the caller's arguments that no step assigns
envVars == <<remote, store, matching, totalCapped, query, csv_file, id_column,
             outcome, value, mapping, case_sensitive>>
dateVars == <<object_types, created_after, modified_after, deletion_counts>>
loggerVars == <<_instance, _initialized, handlers, level, log_calls>>
moduleVars == <<_deleter_instance, constructed, self>>
vars == <<op, pc, envVars, loggerVars, moduleVars, object_type, dateVars, searchVars,
          listVars, deleteVars, calls, result>>

----------------------------------------------------------------------------
(* Bounds and scaled program constants *)

\* per-request page size of the search payload (200 in the code)
PAGE_LIMIT == 2
\* pages of PAGE_LIMIT records that fill one leg (10000 / 200 = 50 in the code)
LegPages == 2
\* depth cap of one leg (the literal 10000 in the code)
LEG_CAP == LegPages * PAGE_LIMIT
\* largest record id of the store
MaxId == 10
\* page size of the listing walk (100 in the code)
LIST_PAGE_SIZE == 2
\* chunk size of the batch deleter (100 in the code)
BATCH_SIZE == 2
\* largest number of records handed to one direct _delete_records call
MaxRecords == 5
\* largest record id of a category walked by the listing endpoint
MaxListId == 6
\* largest number of matching contacts when a whole operation is run
OpsMaxContacts == 5
\* largest number of matching companies when a whole operation is run
OpsMaxCompanies == 1

\* most legs of one search that are followed; a search against the honest
\* remote ends in fewer
MaxLegs == 3

\* remote calls answered by the arbitrary remote before it stops answering
MaxArbCalls == 3
\* largest id the arbitrary remote puts in a page
MaxArbId == 2
\* largest number of rows of a tabular source with one column
MaxRows == 4
\* largest number of rows of a tabular source with a category column
MaxTypedRows == 2
\* largest identifier written in a tabular source
MaxCsvId == 2
\* latest instant of a timestamp, in minutes since the epoch
MaxInstant == 2
\* largest number of contacts in the store when every category is deleted
AllMaxContacts == 3
\* largest number of deals in the store when every category is deleted
AllMaxDeals == 1
\* largest number of LoggerConfig constructions and setup_logging calls
MaxLogCalls == 3

Ids == 1..MaxId
None == 0

----------------------------------------------------------------------------
(* Helpers on sequences *)

Min(a, b) == IF a <= b THEN a ELSE b

\* the elements of a finite set of numbers in ascending order: the k-th is
\* the one with k - 1 elements below it
SortedSeq(S) ==
    [k \in 1..Cardinality(S) |->
        CHOOSE x \in S : Cardinality({y \in S : y < x}) = k - 1]

\* position of x in the sequence seq
PositionIn(seq, x) == CHOOSE k \in 1..Len(seq) : seq[k] = x

Range(s) == {s[k] : k \in 1..Len(s)}

----------------------------------------------------------------------------
(* Payload construction *)

\* variant of _add_id_threshold_filter with the non-strict operator GTE
_add_id_threshold_filter_GTE(base_filters, threshold_id) ==
    LET id_filter == [propertyName |-> "hs_object_id",
                      operator |-> "GTE",
                      value |-> threshold_id]
    IN  Append(base_filters, id_filter)


_add_id_threshold_filter(base_filters, threshold_id) ==
    LET id_filter == [propertyName |-> "hs_object_id",
                      operator |-> "GT",
                      value |-> threshold_id]
    IN  Append(base_filters, id_filter)

_create_search_payload(fs, limit) ==
    [filterGroups |-> << [filters |-> fs] >>,
     sorts |-> << [propertyName |-> "hs_object_id", direction |-> "ASCENDING"] >>,
     limit |-> limit,
     after |-> None]

_build_property_exists_filter(property_name) ==
    [propertyName |-> property_name, operator |-> "HAS_PROPERTY"]

----------------------------------------------------------------------------
(* The remote search endpoint, POST /crm/v3/objects/{category}/search.      *)
(* An honest remote honours predicates, sort, page size and cursors; its   *)
(* cursor is the offset of the next page.  It refuses a request whose      *)
(* offset is at or past the depth cap, and every request that names a      *)
(* category it does not know.                                              *)

Categories == {"contacts", "companies", "deals", "tickets", "notes",
               "emails", "tasks", "meetings", "calls"}

\* whether record id satisfies predicate f in category c
Satisfies(c, f, id) ==
    IF f.propertyName = "hs_object_id"
    THEN CASE f.operator = "GT"  -> id > f.value
           [] f.operator = "GTE" -> id >= f.value
           [] OTHER -> FALSE
    ELSE id \in matching[c]

\* ids selected by the payload: some filter group, all of its filters
Hits(c, p) ==
    {id \in store[c] : \E g \in 1..Len(p.filterGroups) :
        \A k \in 1..Len(p.filterGroups[g].filters) :
            Satisfies(c, p.filterGroups[g].filters[k], id)}

Reverse(s) == [k \in 1..Len(s) |-> s[Len(s) + 1 - k]]

\* the selected ids in the order the payload's sort asks for
Ordered(c, p) ==
    IF Len(p.sorts) > 0 /\ p.sorts[1].propertyName = "hs_object_id"
       /\ p.sorts[1].direction = "ASCENDING"
    THEN SortedSeq(Hits(c, p))
    ELSE Reverse(SortedSeq(Hits(c, p)))

HonestSearch(c, p) ==
    LET all == Ordered(c, p)
        n == Len(all)
    IN  [results |-> SubSeq(all, p.after + 1, Min(p.after + p.limit, n)),
         total |-> IF totalCapped THEN Min(n, LEG_CAP) ELSE n,
         next |-> IF p.after + p.limit < n THEN p.after + p.limit ELSE None]

\* pages an arbitrary remote may send: any ids, any order, up to the page size
ArbPages == UNION {[1..n -> 1..MaxArbId] : n \in 0..PAGE_LIMIT}

ArbResponses ==
    [results : ArbPages, total : {0, 1, LEG_CAP}, next : {None, 1}]

\* whether the remote still answers (the arbitrary remote answers a bounded
\* number of calls)
RemoteAnswers ==
    IF remote = "honest" THEN Len(legs) < MaxLegs ELSE Len(calls) < MaxArbCalls

SearchResponses(c, p) ==
    IF remote = "honest"
    THEN IF c \notin Categories \/ p.after >= LEG_CAP
         THEN {}
         ELSE {HonestSearch(c, p)}
    ELSE ArbResponses

----------------------------------------------------------------------------
(* History records *)

\* a search request: its payload, the records the leg held when it was sent,
\* the pacing delay (ms) slept right before it, and whether it was answered
SearchCall(c, p, acc, delay, ok) ==
    [kind |-> "search", object_type |-> c, payload |-> p,
     acc |-> acc, delay |-> delay, ok |-> ok]

\* a drained leg: its threshold, the total its first response reported,
\* the records it returned and the last_id it handed back
Leg(threshold, tot, recs, lid) ==
    [threshold |-> threshold, total |-> tot, records |-> recs, last_id |-> lid]

----------------------------------------------------------------------------
(* HubSpotDeleter._search_records and _process_search_batch *)

\* ids of a page in order; last_id follows the last record processed
LastIdAfter(lid, results) ==
    IF Len(results) = 0 THEN lid ELSE results[Len(results)]

\* cool-down slept at the top of the while loop, in ms
LegDelay == IF last_record_id > 0 THEN 1000 ELSE 0

\* variant of FinishLeg that leaves the threshold where it was
FinishLeg_KeepsThreshold(tot, recs, lid, cursor) ==
    /\ batch_records' = recs
    /\ last_id' = lid
    /\ after' = cursor
    /\ all_records' = all_records \o recs
    /\ last_record_id' = last_record_id
    /\ legs' = Append(legs, Leg(last_record_id, tot, recs, lid))
    /\ pc' = IF tot < LEG_CAP THEN "search_returned" ELSE "search_leg"

\* variant of FinishLeg that also breaks when the total equals the cap
FinishLeg_BreakAtCap(tot, recs, lid, cursor) ==
    /\ batch_records' = recs
    /\ last_id' = lid
    /\ after' = cursor
    /\ all_records' = all_records \o recs
    /\ last_record_id' = lid
    /\ legs' = Append(legs, Leg(last_record_id, tot, recs, lid))
    /\ pc' = IF tot <= LEG_CAP THEN "search_returned" ELSE "search_leg"

\* variant of FinishLeg that keeps only the records of the leg just drained
FinishLeg_DropsEarlier(tot, recs, lid, cursor) ==
    /\ batch_records' = recs
    /\ last_id' = lid
    /\ after' = cursor
    /\ all_records' = recs
    /\ last_record_id' = lid
    /\ legs' = Append(legs, Leg(last_record_id, tot, recs, lid))
    /\ pc' = IF tot < LEG_CAP THEN "search_returned" ELSE "search_leg"

\* the leg is drained: _process_search_batch returns (recs, lid) and the
\* while loop of _search_records extends, moves the threshold and breaks
\* or goes round
FinishLeg(tot, recs, lid, cursor) ==
    /\ batch_records' = recs
    /\ last_id' = lid
    /\ after' = cursor
    /\ all_records' = all_records \o recs
    /\ last_record_id' = lid
    /\ legs' = Append(legs, Leg(last_record_id, tot, recs, lid))
    /\ pc' = IF tot < LEG_CAP THEN "search_returned" ELSE "search_leg"

\* variant of SearchFirstOk that appends the threshold predicate to the
\* predicates of the leg before, not to the caller's
SearchFirstOk_Accumulates ==
    /\ pc = "search_leg"
    /\ RemoteAnswers
    /\ LET base_filters == IF legs = <<>> THEN filters
                           ELSE search_payload.filterGroups[1].filters
           current_filters == _add_id_threshold_filter(base_filters, last_record_id)
           payload == _create_search_payload(current_filters, PAGE_LIMIT)
       IN  \E response \in SearchResponses(object_type, payload) :
             /\ calls' = Append(calls,
                    SearchCall(object_type, payload, 0, LegDelay, TRUE))
             /\ search_payload' = payload
             /\ total' = response.total
             /\ IF response.total = 0
                THEN /\ pc' = "search_returned"
                     /\ UNCHANGED <<all_records, last_record_id,
                                    batch_records, last_id, after, legs>>
                ELSE LET recs == response.results
                         lid == LastIdAfter(0, recs)
                     IN  IF response.next = None
                         THEN FinishLeg(response.total, recs, lid, None)
                         ELSE /\ batch_records' = recs
                              /\ last_id' = lid
                              /\ after' = response.next
                              /\ pc' = "search_page"
                              /\ UNCHANGED <<all_records, last_record_id, legs>>
    /\ UNCHANGED <<op, envVars, loggerVars, moduleVars, object_type, dateVars, filters, listVars, deleteVars, result>>

\* first request of a leg, answered
SearchFirstOk ==
    /\ pc = "search_leg"
    /\ RemoteAnswers
    /\ LET current_filters == _add_id_threshold_filter(filters, last_record_id)
           payload == _create_search_payload(current_filters, PAGE_LIMIT)
       IN  \E response \in SearchResponses(object_type, payload) :
             /\ calls' = Append(calls,
                    SearchCall(object_type, payload, 0, LegDelay, TRUE))
             /\ search_payload' = payload
             /\ total' = response.total
             /\ IF response.total = 0
                THEN /\ pc' = "search_returned"
                     /\ UNCHANGED <<all_records, last_record_id,
                                    batch_records, last_id, after, legs>>
                ELSE LET recs == response.results
                         lid == LastIdAfter(0, recs)
                     IN  IF response.next = None
                         THEN FinishLeg(response.total, recs, lid, None)
                         ELSE /\ batch_records' = recs
                              /\ last_id' = lid
                              /\ after' = response.next
                              /\ pc' = "search_page"
                              /\ UNCHANGED <<all_records, last_record_id, legs>>
    /\ UNCHANGED <<op, envVars, loggerVars, moduleVars, object_type, dateVars, filters, listVars, deleteVars, result>>

\* variant of SearchFirstErr that swallows the error and returns what the
\* search has collected
SearchFirstErr_Swallows ==
    /\ pc = "search_leg"
    /\ RemoteAnswers
    /\ LET current_filters == _add_id_threshold_filter(filters, last_record_id)
           payload == _create_search_payload(current_filters, PAGE_LIMIT)
       IN  /\ calls' = Append(calls,
                  SearchCall(object_type, payload, 0, LegDelay, FALSE))
           /\ search_payload' = payload
    /\ pc' = "search_returned"
    /\ UNCHANGED <<op, envVars, loggerVars, moduleVars, object_type, dateVars, filters, all_records,
                   last_record_id, total, batch_records, last_id, after, legs,
                   listVars, deleteVars, result>>

\* first request of a leg, failing with a classified error: logged, re-raised
SearchFirstErr ==
    /\ pc = "search_leg"
    /\ RemoteAnswers
    /\ LET current_filters == _add_id_threshold_filter(filters, last_record_id)
           payload == _create_search_payload(current_filters, PAGE_LIMIT)
       IN  /\ calls' = Append(calls,
                  SearchCall(object_type, payload, 0, LegDelay, FALSE))
           /\ search_payload' = payload
    /\ pc' = "raised"
    /\ result' = "HubspotError"
    /\ UNCHANGED <<op, envVars, loggerVars, moduleVars, object_type, dateVars, filters, all_records,
                   last_record_id, total, batch_records, last_id, after, legs,
                   listVars, deleteVars>>

\* variant of SearchPageOk without the stop at the depth cap
SearchPageOk_NoCap ==
    /\ pc = "search_page"
    /\ RemoteAnswers
    /\ LET payload == [search_payload EXCEPT !.after = after]
       IN  \E response \in SearchResponses(object_type, payload) :
             LET recs == batch_records \o response.results
                 lid == LastIdAfter(last_id, response.results)
             IN  /\ calls' = Append(calls,
                        SearchCall(object_type, payload, Len(batch_records), 100, TRUE))
                 /\ search_payload' = payload
                 /\ IF response.next = None
                    THEN FinishLeg(total, recs, lid, response.next)
                    ELSE /\ batch_records' = recs
                         /\ last_id' = lid
                         /\ after' = response.next
                         /\ pc' = "search_page"
                         /\ UNCHANGED <<all_records, last_record_id, legs>>
    /\ UNCHANGED <<op, envVars, loggerVars, moduleVars, object_type, dateVars, filters, total, listVars, deleteVars, result>>

\* cursor-follow request inside a leg, answered
SearchPageOk ==
    /\ pc = "search_page"
    /\ RemoteAnswers
    /\ LET payload == [search_payload EXCEPT !.after = after]
       IN  \E response \in SearchResponses(object_type, payload) :
             LET recs == batch_records \o response.results
                 lid == LastIdAfter(last_id, response.results)
             IN  /\ calls' = Append(calls,
                        SearchCall(object_type, payload, Len(batch_records), 100, TRUE))
                 /\ search_payload' = payload
                 /\ IF Len(recs) >= LEG_CAP \/ response.next = None
                    THEN FinishLeg(total, recs, lid, response.next)
                    ELSE /\ batch_records' = recs
                         /\ last_id' = lid
                         /\ after' = response.next
                         /\ pc' = "search_page"
                         /\ UNCHANGED <<all_records, last_record_id, legs>>
    /\ UNCHANGED <<op, envVars, loggerVars, moduleVars, object_type, dateVars, filters, total, listVars, deleteVars, result>>

\* variant of SearchPageErr that swallows the error and returns what the
\* search has collected, as the listing walk does
SearchPageErr_ReturnsPartial ==
    /\ pc = "search_page"
    /\ RemoteAnswers
    /\ LET payload == [search_payload EXCEPT !.after = after]
       IN  /\ calls' = Append(calls,
                  SearchCall(object_type, payload, Len(batch_records), 100, FALSE))
           /\ search_payload' = payload
    /\ all_records' = all_records \o batch_records
    /\ pc' = "search_returned"
    /\ UNCHANGED <<op, envVars, loggerVars, moduleVars, object_type, dateVars, filters,
                   last_record_id, total, batch_records, last_id, after, legs,
                   listVars, deleteVars, result>>

\* cursor-follow request failing: the error leaves _process_search_batch and
\* is re-raised by _search_records
SearchPageErr ==
    /\ pc = "search_page"
    /\ RemoteAnswers
    /\ LET payload == [search_payload EXCEPT !.after = after]
       IN  /\ calls' = Append(calls,
                  SearchCall(object_type, payload, Len(batch_records), 100, FALSE))
           /\ search_payload' = payload
    /\ pc' = "raised"
    /\ result' = "HubspotError"
    /\ UNCHANGED <<op, envVars, loggerVars, moduleVars, object_type, dateVars, filters, all_records,
                   last_record_id, total, batch_records, last_id, after, legs,
                   listVars, deleteVars>>

\* _search_records returns all_records to a direct caller
SearchReturn ==
    /\ pc = "search_returned"
    /\ op = "search"
    /\ pc' = "done"
    /\ result' = all_records
    /\ UNCHANGED <<op, envVars, loggerVars, moduleVars, object_type, dateVars, searchVars, listVars, deleteVars, calls>>

----------------------------------------------------------------------------
(* HubSpotDeleter._get_all_records_by_type                                  *)
(* The listing endpoint GET /crm/v3/objects/{category} returns the records  *)
(* of the category in ascending id order, limit at a time; its cursor is    *)
(* the id of the last record of the page.                                   *)

ListCall(c, params, ok) ==
    [kind |-> "list", object_type |-> c, params |-> params, ok |-> ok]

\* params of the listing request: "after" is sent only when truthy
ListParams(page_size, cursor) ==
    IF cursor # None
    THEN [limit |-> page_size, after |-> cursor]
    ELSE [limit |-> page_size, after |-> None]

HonestList(c, params) ==
    LET rest == SortedSeq({id \in store[c] : id > params.after})
        page == SubSeq(rest, 1, Min(params.limit, Len(rest)))
    IN  [results |-> page,
         next |-> IF Len(rest) > params.limit THEN page[Len(page)] ELSE None]

ListResponses(c, params) ==
    IF c \in Categories THEN {HonestList(c, params)} ELSE {}

\* variant of ListOk that stops after the page whatever the response's cursor
ListOk_OnePage ==
    /\ pc = "list_page"
    /\ LET params == ListParams(LIST_PAGE_SIZE, list_after)
       IN  \E response \in ListResponses(object_type, params) :
             /\ calls' = Append(calls, ListCall(object_type, params, TRUE))
             /\ list_records' = list_records \o response.results
             /\ list_after' = response.next
             /\ pc' = "list_returned"
    /\ UNCHANGED <<op, envVars, loggerVars, moduleVars, object_type, dateVars, searchVars, deleteVars, result>>

\* a listing request, answered: the page is appended and the cursor followed
ListOk ==
    /\ pc = "list_page"
    /\ LET params == ListParams(LIST_PAGE_SIZE, list_after)
       IN  \E response \in ListResponses(object_type, params) :
             /\ calls' = Append(calls, ListCall(object_type, params, TRUE))
             /\ list_records' = list_records \o response.results
             /\ list_after' = response.next
             /\ pc' = IF response.next = None THEN "list_returned" ELSE "list_page"
    /\ UNCHANGED <<op, envVars, loggerVars, moduleVars, object_type, dateVars, searchVars, deleteVars, result>>

\* variant of ListErr that lets the error leave the walk
ListErr_Raises ==
    /\ pc = "list_page"
    /\ LET params == ListParams(LIST_PAGE_SIZE, list_after)
       IN  calls' = Append(calls, ListCall(object_type, params, FALSE))
    /\ pc' = "raised"
    /\ result' = "HubspotError"
    /\ UNCHANGED <<op, envVars, loggerVars, moduleVars, object_type, dateVars, searchVars, listVars, deleteVars>>

\* variant of ListErr that drops the pages collected before the error
ListErr_Discards ==
    /\ pc = "list_page"
    /\ LET params == ListParams(LIST_PAGE_SIZE, list_after)
       IN  calls' = Append(calls, ListCall(object_type, params, FALSE))
    /\ pc' = "list_returned"
    /\ list_records' = <<>>
    /\ UNCHANGED <<op, envVars, loggerVars, moduleVars, object_type, dateVars, searchVars, list_after, deleteVars,
                   result>>

\* a listing request failing with a classified error: logged, and the walk
\* returns what it has collected
ListErr ==
    /\ pc = "list_page"
    /\ LET params == ListParams(LIST_PAGE_SIZE, list_after)
       IN  calls' = Append(calls, ListCall(object_type, params, FALSE))
    /\ pc' = "list_returned"
    /\ UNCHANGED <<op, envVars, loggerVars, moduleVars, object_type, dateVars, searchVars, listVars, deleteVars,
                   result>>

\* _get_all_records_by_type returns all_records to a direct caller
ListReturn ==
    /\ pc = "list_returned"
    /\ op = "list"
    /\ pc' = "done"
    /\ result' = list_records
    /\ UNCHANGED <<op, envVars, loggerVars, moduleVars, object_type, dateVars, searchVars, listVars, deleteVars,
                   calls>>

----------------------------------------------------------------------------
(* HubSpotDeleter._delete_records *)

\* a bulk-archive call: the offset of its chunk and the ids it carries
ArchiveCall(c, at, ids, ok) ==
    [kind |-> "archive", object_type |-> c, at |-> at, ids |-> ids, ok |-> ok]

\* an individual delete call: the position in records and the id it names
DeleteCall(c, idx, id, ok) ==
    [kind |-> "delete", object_type |-> c, idx |-> idx, id |-> id, ok |-> ok]

\* variant of Batch that slices one record short of batch_size
Batch_Short(recs, at) == SubSeq(recs, at + 1, Min(at + BATCH_SIZE - 1, Len(recs)))

\* records[i:i+batch_size]
Batch(recs, at) == SubSeq(recs, at + 1, Min(at + BATCH_SIZE, Len(recs)))

\* the for loop moves to the next chunk, or the function returns
NextChunk(at) ==
    /\ i' = at
    /\ j' = 0
    /\ pc' = IF at < Len(records) THEN "del_bulk" ELSE "del_returned"

\* variant of BulkOk that counts a full chunk whatever the chunk's length
BulkOk_CountsBatchSize ==
    /\ pc = "del_bulk"
    /\ RemoteAnswers
    /\ LET batch == Batch(records, i)
       IN  /\ calls' = Append(calls, ArchiveCall(object_type, i, batch, TRUE))
           /\ deleted_count' = deleted_count + BATCH_SIZE
    /\ NextChunk(i + BATCH_SIZE)
    /\ UNCHANGED <<op, envVars, loggerVars, moduleVars, object_type, dateVars, searchVars, listVars, records, result>>

\* variant of BulkOk that goes on to the individual deletes of the chunk
BulkOk_FallsThrough ==
    /\ pc = "del_bulk"
    /\ RemoteAnswers
    /\ LET batch == Batch(records, i)
       IN  /\ calls' = Append(calls, ArchiveCall(object_type, i, batch, TRUE))
           /\ deleted_count' = deleted_count + Len(batch)
    /\ j' = 0
    /\ pc' = "del_indiv"
    /\ UNCHANGED <<op, envVars, loggerVars, moduleVars, object_type, dateVars, searchVars, listVars, records, i,
                   result>>

\* the bulk-archive call of the chunk succeeds
BulkOk ==
    /\ pc = "del_bulk"
    /\ RemoteAnswers
    /\ LET batch == Batch(records, i)
       IN  /\ calls' = Append(calls, ArchiveCall(object_type, i, batch, TRUE))
           /\ deleted_count' = deleted_count + Len(batch)
    /\ NextChunk(i + BATCH_SIZE)
    /\ UNCHANGED <<op, envVars, loggerVars, moduleVars, object_type, dateVars, searchVars, listVars, records, result>>

\* variant of BulkErr that counts the chunk before retrying its records one
\* by one
BulkErr_CountsChunk ==
    /\ pc = "del_bulk"
    /\ RemoteAnswers
    /\ LET batch == Batch(records, i)
       IN  /\ calls' = Append(calls, ArchiveCall(object_type, i, batch, FALSE))
           /\ deleted_count' = deleted_count + Len(batch)
    /\ j' = 0
    /\ pc' = "del_indiv"
    /\ UNCHANGED <<op, envVars, loggerVars, moduleVars, object_type, dateVars, searchVars, listVars, records, i,
                   result>>

\* the bulk-archive call fails with a classified error: fall back to
\* deleting the chunk's records one by one
BulkErr ==
    /\ pc = "del_bulk"
    /\ RemoteAnswers
    /\ LET batch == Batch(records, i)
       IN  calls' = Append(calls, ArchiveCall(object_type, i, batch, FALSE))
    /\ j' = 0
    /\ pc' = "del_indiv"
    /\ UNCHANGED <<op, envVars, loggerVars, moduleVars, object_type, dateVars, searchVars, listVars, records, i,
                   deleted_count, result>>

\* after an individual delete: next record of the chunk, or next chunk
NextRecord ==
    IF j + 1 < Len(Batch(records, i))
    THEN /\ j' = j + 1
         /\ UNCHANGED <<i, pc>>
    ELSE NextChunk(i + BATCH_SIZE)

\* an individual delete succeeds
IndivOk ==
    /\ pc = "del_indiv"
    /\ RemoteAnswers
    /\ calls' = Append(calls,
           DeleteCall(object_type, i + j + 1, records[i + j + 1], TRUE))
    /\ deleted_count' = deleted_count + 1
    /\ NextRecord
    /\ UNCHANGED <<op, envVars, loggerVars, moduleVars, object_type, dateVars, searchVars, listVars, records, result>>

\* variant of IndivErr that lets the error leave _delete_records
IndivErr_Raises ==
    /\ pc = "del_indiv"
    /\ RemoteAnswers
    /\ calls' = Append(calls,
           DeleteCall(object_type, i + j + 1, records[i + j + 1], FALSE))
    /\ pc' = "raised"
    /\ result' = "HubspotError"
    /\ UNCHANGED <<op, envVars, loggerVars, moduleVars, object_type, dateVars, searchVars, listVars, deleteVars>>

\* an individual delete fails: logged, the loop goes on
IndivErr ==
    /\ pc = "del_indiv"
    /\ RemoteAnswers
    /\ calls' = Append(calls,
           DeleteCall(object_type, i + j + 1, records[i + j + 1], FALSE))
    /\ NextRecord
    /\ UNCHANGED <<op, envVars, loggerVars, moduleVars, object_type, dateVars, searchVars, listVars, records,
                   deleted_count, result>>

\* _delete_records returns deleted_count to a direct caller
DeleteReturn ==
    /\ pc = "del_returned"
    /\ op = "delete"
    /\ pc' = "done"
    /\ result' = deleted_count
    /\ UNCHANGED <<op, envVars, loggerVars, moduleVars, object_type, dateVars, searchVars, listVars, deleteVars,
                   calls>>

----------------------------------------------------------------------------
(* Specification of one filtered search against an honest remote *)

NoCategory == [c \in Categories |-> {}]

InitSearchLocals ==
    /\ all_records = <<>>
    /\ last_record_id = 0
    /\ total = 0
    /\ search_payload = _create_search_payload(<<>>, PAGE_LIMIT)
    /\ batch_records = <<>>
    /\ last_id = 0
    /\ after = None
    /\ legs = <<>>

InitListLocals ==
    /\ list_records = <<>>
    /\ list_after = None

\* arguments of operations that are not the one in progress
NoQuery == [kind |-> "none", text |-> "", filters |-> <<>>]

NoFile == [has_header |-> FALSE, fieldnames |-> <<>>, rows |-> <<>>]

\* a header that the response does not carry
NoHeader == [present |-> FALSE, text |-> <<>>]

NoOutcome ==
    [transport_error |-> FALSE, status_code |-> 0, retry_after |-> NoHeader,
     json_body |-> FALSE, duplicateProperties |-> FALSE]

\* the value None
NoValue == [kind |-> "None", text |-> <<>>, n |-> 0]

\* no _apply_mapping call is made
NoMappingArguments ==
    /\ value = NoValue
    /\ mapping = <<>>
    /\ case_sensitive = FALSE

NoArguments ==
    /\ query = NoQuery
    /\ csv_file = NoFile
    /\ id_column = "none"
    /\ outcome = NoOutcome
    /\ NoMappingArguments

\* an absent Optional[datetime] argument
NoTimestamp == [given |-> FALSE, aware |-> FALSE, wall |-> 0, offset |-> 0]

InitDateLocals ==
    /\ object_types = <<>>
    /\ created_after = NoTimestamp
    /\ modified_after = NoTimestamp
    /\ deletion_counts = <<>>

\* the logging module before LoggerConfig is first constructed
InitLoggerLocals ==
    /\ _instance = None
    /\ _initialized = FALSE
    /\ handlers = <<>>
    /\ level = "NOTSET"
    /\ log_calls = <<>>

InitModuleLocals ==
    /\ _deleter_instance = None
    /\ constructed = 0
    /\ self = None

InitDeleteLocals ==
    /\ records = <<>>
    /\ i = 0
    /\ j = 0
    /\ deleted_count = 0

InitSearch ==
    /\ op = "search"
    /\ pc = "search_leg"
    /\ remote = "honest"
    /\ store = [NoCategory EXCEPT !["contacts"] = Ids]
    /\ \E S \in SUBSET Ids : matching = [NoCategory EXCEPT !["contacts"] = S]
    /\ totalCapped \in BOOLEAN
    /\ NoArguments
    /\ object_type = "contacts"
    /\ filters = << _build_property_exists_filter("email") >>
    /\ InitDateLocals
    /\ InitSearchLocals
    /\ InitListLocals
    /\ InitLoggerLocals
    /\ InitModuleLocals
    /\ InitDeleteLocals
    /\ calls = <<>>
    /\ result = "none"

NextSearch ==
    \/ SearchFirstOk
    \/ SearchFirstErr
    \/ SearchPageOk
    \/ SearchPageErr
    \/ SearchReturn

SpecSearch == InitSearch /\ [][NextSearch]_vars

----------------------------------------------------------------------------
(* Specification of one filtered search against a remote that may answer   *)
(* anything                                                                *)

InitArb ==
    /\ op = "search"
    /\ pc = "search_leg"
    /\ remote = "arbitrary"
    /\ store = NoCategory
    /\ matching = NoCategory
    /\ totalCapped = FALSE
    /\ NoArguments
    /\ object_type = "contacts"
    /\ filters = << _build_property_exists_filter("email") >>
    /\ InitDateLocals
    /\ InitSearchLocals
    /\ InitListLocals
    /\ InitLoggerLocals
    /\ InitModuleLocals
    /\ InitDeleteLocals
    /\ calls = <<>>
    /\ result = "none"

SpecArb == InitArb /\ [][NextSearch]_vars

----------------------------------------------------------------------------
(* Specification of one listing walk *)

InitList ==
    /\ op = "list"
    /\ pc = "list_page"
    /\ remote = "honest"
    /\ \E S \in SUBSET (1..MaxListId) : store = [NoCategory EXCEPT !["contacts"] = S]
    /\ matching = NoCategory
    /\ totalCapped = FALSE
    /\ NoArguments
    /\ object_type = "contacts"
    /\ filters = <<>>
    /\ InitDateLocals
    /\ InitSearchLocals
    /\ InitListLocals
    /\ InitLoggerLocals
    /\ InitModuleLocals
    /\ InitDeleteLocals
    /\ calls = <<>>
    /\ result = "none"

NextList ==
    \/ ListOk
    \/ ListErr
    \/ ListReturn

SpecList == InitList /\ [][NextList]_vars

----------------------------------------------------------------------------
(* Specification of one enumeration, a filtered search or a listing walk,   *)
(* against the honest remote, in which the running call always takes its    *)
(* next step: the program is sequential, its pauses are finite and every    *)
(* request it sends is answered or fails                                    *)

InitWalk == InitSearch \/ InitList

NextWalk ==
    \/ SearchFirstOk
    \/ SearchFirstErr
    \/ SearchPageOk
    \/ SearchPageErr
    \/ SearchReturn
    \/ ListOk
    \/ ListErr
    \/ ListReturn

SpecWalk == InitWalk /\ [][NextWalk]_vars /\ WF_vars(NextWalk)
----------------------------------------------------------------------------
(* Specification of one _delete_records call *)

InitDelete ==
    /\ op = "delete"
    /\ remote = "honest"
    /\ store = NoCategory
    /\ matching = NoCategory
    /\ totalCapped = FALSE
    /\ NoArguments
    /\ object_type = "contacts"
    /\ filters = <<>>
    /\ InitDateLocals
    /\ InitSearchLocals
    /\ InitListLocals
    /\ InitLoggerLocals
    /\ InitModuleLocals
    /\ \E n \in 0..MaxRecords : records = [k \in 1..n |-> k]
    /\ i = 0
    /\ j = 0
    /\ deleted_count = 0
    /\ pc = IF Len(records) > 0 THEN "del_bulk" ELSE "del_returned"
    /\ calls = <<>>
    /\ result = "none"

NextDelete ==
    \/ BulkOk
    \/ BulkErr
    \/ IndivOk
    \/ IndivErr
    \/ DeleteReturn

SpecDelete == InitDelete /\ [][NextDelete]_vars

----------------------------------------------------------------------------
(* The caller-facing operations built on the filtered search and on the    *)
(* listing walk: delete_by_query, delete_by_property,                       *)
(* delete_by_date_criteria and delete_objects_by_type.  A str argument is   *)
(* held with kind "str", a list of filters with kind "list".               *)
(* A datetime is its wall-clock reading and, when timezone-aware, its UTC  *)
(* offset, both in minutes.                                                *)

\* variant of _get_all_object_types that leaves out the last category
_get_all_object_types_Short ==
    <<"contacts", "companies", "deals", "tickets", "notes", "emails", "tasks",
      "meetings">>

_get_all_object_types ==
    <<"contacts", "companies", "deals", "tickets", "notes", "emails", "tasks",
      "meetings", "calls">>

_get_custom_object_types == <<>>

\* variant of UtcMillis that reads the wall clock as if it were UTC
UtcMillis_IgnoresOffset(timestamp) == timestamp.wall * 60000

\* int(timestamp.astimezone(timezone.utc).timestamp() * 1000)
UtcMillis(timestamp) == (timestamp.wall - timestamp.offset) * 60000

\* decimal digits of a natural number, most significant first
RECURSIVE Digits(_)
Digits(n) == IF n < 10 THEN << n >> ELSE Append(Digits(n \div 10), n % 10)

\* str() of an int: its sign and its decimal digits
str(n) == [negative |-> n < 0, digits |-> Digits(IF n < 0 THEN -n ELSE n)]

\* variant of _build_date_filter that asks for dates strictly after
_build_date_filter_GT(property_name, timestamp) ==
    [propertyName |-> property_name,
     operator |-> "GT",
     value |-> str(UtcMillis(timestamp))]

_build_date_filter(property_name, timestamp) ==
    [propertyName |-> property_name,
     operator |-> "GTE",
     value |-> str(UtcMillis(timestamp))]

\* whether _build_date_filter raises ValueError for this argument
IsNaive(timestamp) == timestamp.given /\ ~timestamp.aware

\* the filters _get_records_by_date_criteria builds
DateFilters(created, modified) ==
    (IF created.given
     THEN << _build_date_filter("createdate", created) >> ELSE <<>>)
    \o (IF modified.given
        THEN << _build_date_filter("lastmodifieddate", modified) >> ELSE <<>>)

\* the locals of _search_records at its entry
EnterSearch(c, fs) ==
    /\ object_type' = c
    /\ filters' = fs
    /\ all_records' = <<>>
    /\ last_record_id' = 0
    /\ total' = 0
    /\ search_payload' = _create_search_payload(<<>>, PAGE_LIMIT)
    /\ batch_records' = <<>>
    /\ last_id' = 0
    /\ after' = None
    /\ legs' = <<>>
    /\ pc' = "search_leg"

\* the for loop of delete_by_date_criteria is exhausted: return the counts
DateDone ==
    /\ op = "delete_by_date_criteria"
    /\ pc = "date_loop"
    /\ object_types = <<>>
    /\ pc' = "done"
    /\ result' = deletion_counts
    /\ UNCHANGED <<op, envVars, loggerVars, moduleVars, object_type, dateVars, searchVars, listVars,
                   deleteVars, calls>>

\* _build_date_filter rejects a timezone-naive timestamp
DateUsageError ==
    /\ op = "delete_by_date_criteria"
    /\ pc = "date_loop"
    /\ object_types # <<>>
    /\ IsNaive(created_after)
       \/ (~IsNaive(created_after) /\ IsNaive(modified_after))
    /\ object_type' = Head(object_types)
    /\ pc' = "raised"
    /\ result' = "ValueError"
    /\ UNCHANGED <<op, envVars, loggerVars, moduleVars, dateVars, searchVars, listVars, deleteVars, calls>>

\* variant of DateNoCriteria that searches with the empty predicate list
DateNoCriteria_SearchesAll ==
    /\ op = "delete_by_date_criteria"
    /\ pc = "date_loop"
    /\ object_types # <<>>
    /\ ~created_after.given /\ ~modified_after.given
    /\ EnterSearch(Head(object_types), <<>>)
    /\ object_types' = Tail(object_types)
    /\ UNCHANGED <<op, envVars, loggerVars, moduleVars, created_after, modified_after, deletion_counts,
                   listVars, deleteVars, calls, result>>

\* neither timestamp is given: _get_records_by_date_criteria returns [] and
\* _delete_records, given nothing, returns 0 without a call
DateNoCriteria ==
    /\ op = "delete_by_date_criteria"
    /\ pc = "date_loop"
    /\ object_types # <<>>
    /\ ~created_after.given /\ ~modified_after.given
    /\ object_type' = Head(object_types)
    /\ object_types' = Tail(object_types)
    /\ deletion_counts' = (Head(object_types) :> 0) @@ deletion_counts
    /\ records' = <<>>
    /\ i' = 0
    /\ j' = 0
    /\ deleted_count' = 0
    /\ UNCHANGED <<op, pc, envVars, loggerVars, moduleVars, created_after, modified_after, searchVars,
                   listVars, calls, result>>

\* the next category: build the date filters and enter _search_records
DateSearch ==
    /\ op = "delete_by_date_criteria"
    /\ pc = "date_loop"
    /\ object_types # <<>>
    /\ ~IsNaive(created_after) /\ ~IsNaive(modified_after)
    /\ created_after.given \/ modified_after.given
    /\ EnterSearch(Head(object_types), DateFilters(created_after, modified_after))
    /\ object_types' = Tail(object_types)
    /\ UNCHANGED <<op, envVars, loggerVars, moduleVars, created_after, modified_after, deletion_counts,
                   listVars, deleteVars, calls, result>>

\* whether base_filters.copy() exists: a list has the method, a str has not
HasCopy(base_filters) == base_filters.kind = "list"

\* delete_by_query given a list of filters: enter _search_records
QueryList ==
    /\ op = "delete_by_query"
    /\ pc = "query_start"
    /\ HasCopy(query)
    /\ EnterSearch(object_type, query.filters)
    /\ UNCHANGED <<op, envVars, loggerVars, moduleVars, dateVars, listVars, deleteVars, calls, result>>

\* delete_by_query given a str, as the command line passes it: the first
\* round of the while loop of _search_records calls
\* _add_id_threshold_filter, whose base_filters.copy() raises AttributeError
QueryText ==
    /\ op = "delete_by_query"
    /\ pc = "query_start"
    /\ ~HasCopy(query)
    /\ pc' = "raised"
    /\ result' = "AttributeError"
    /\ UNCHANGED <<op, envVars, loggerVars, moduleVars, object_type, dateVars, searchVars, listVars,
                   deleteVars, calls>>

\* the listing walk has returned its records: delete_objects_by_type enters
\* _delete_records with them
AfterList ==
    /\ op \in {"delete_objects_by_type", "delete_all_records"}
    /\ pc = "list_returned"
    /\ records' = list_records
    /\ i' = 0
    /\ j' = 0
    /\ deleted_count' = 0
    /\ pc' = IF Len(list_records) > 0 THEN "del_bulk" ELSE "del_returned"
    /\ UNCHANGED <<op, envVars, loggerVars, moduleVars, object_type, dateVars, searchVars, listVars,
                   calls, result>>

\* the search has returned its records: enter _delete_records with them
AfterSearch ==
    /\ op \in {"delete_by_query", "delete_by_property", "delete_by_date_criteria"}
    /\ pc = "search_returned"
    /\ records' = all_records
    /\ i' = 0
    /\ j' = 0
    /\ deleted_count' = 0
    /\ pc' = IF Len(all_records) > 0 THEN "del_bulk" ELSE "del_returned"
    /\ UNCHANGED <<op, envVars, loggerVars, moduleVars, object_type, dateVars, searchVars, listVars,
                   calls, result>>

\* delete_by_query, delete_by_property and delete_objects_by_type return
\* the deleter's count
SingleReturn ==
    /\ op \in {"delete_by_query", "delete_by_property", "delete_objects_by_type"}
    /\ pc = "del_returned"
    /\ pc' = "done"
    /\ result' = deleted_count
    /\ UNCHANGED <<op, envVars, loggerVars, moduleVars, object_type, dateVars, searchVars, listVars,
                   deleteVars, calls>>

\* variant of DateCount that searches the category again when some of its
\* records were not deleted
DateCount_SearchesAgain ==
    /\ op = "delete_by_date_criteria"
    /\ pc = "del_returned"
    /\ deletion_counts' = (object_type :> deleted_count) @@ deletion_counts
    /\ pc' = IF deleted_count < Len(records) THEN "search_leg" ELSE "date_loop"
    /\ UNCHANGED <<op, envVars, loggerVars, moduleVars, object_type, object_types, created_after,
                   modified_after, searchVars, listVars, deleteVars, calls,
                   result>>

\* delete_by_date_criteria records the category's count and goes round
DateCount ==
    /\ op = "delete_by_date_criteria"
    /\ pc = "del_returned"
    /\ deletion_counts' = (object_type :> deleted_count) @@ deletion_counts
    /\ pc' = "date_loop"
    /\ UNCHANGED <<op, envVars, loggerVars, moduleVars, object_type, object_types, created_after,
                   modified_after, searchVars, listVars, deleteVars, calls,
                   result>>

\* timestamps a caller may pass: absent, timezone-naive, timezone-aware
Timestamps ==
    {NoTimestamp,
     [given |-> TRUE, aware |-> FALSE, wall |-> 0, offset |-> 0],
     [given |-> TRUE, aware |-> TRUE, wall |-> 0, offset |-> -300]}

\* object_types arguments a caller may pass; None stands for all categories
ObjectTypesArgs ==
    {_get_all_object_types \o _get_custom_object_types,
     <<>>, <<"contacts">>, <<"contacts", "companies">>,
     <<"companies", "contacts">>}

\* object_type arguments a caller may pass: any str, known to the remote or
\* not
ObjectTypeArgs == {"contacts", "companies", "widgets"}

\* query arguments a caller may pass to delete_by_query
Queries ==
    {[kind |-> "str", text |-> "email:*", filters |-> <<>>],
     [kind |-> "list", text |-> "",
      filters |-> << _build_property_exists_filter("email") >>]}

Prefix(n) == 1..n

InitOps ==
    /\ op \in {"delete_objects_by_type", "delete_by_query",
               "delete_by_property", "delete_by_date_criteria"}
    /\ csv_file = NoFile
    /\ id_column = "none"
    /\ outcome = NoOutcome
    /\ NoMappingArguments
    /\ remote = "honest"
    /\ store = [NoCategory EXCEPT !["contacts"] = Prefix(OpsMaxContacts),
                                  !["companies"] = Prefix(OpsMaxCompanies)]
    /\ \E n \in 0..OpsMaxContacts : \E m \in 0..OpsMaxCompanies :
          matching = [NoCategory EXCEPT !["contacts"] = Prefix(n),
                                        !["companies"] = Prefix(m)]
    /\ totalCapped \in BOOLEAN
    /\ deletion_counts = <<>>
    /\ IF op = "delete_by_date_criteria"
       THEN /\ object_types \in ObjectTypesArgs
            /\ created_after \in Timestamps
            /\ modified_after \in Timestamps
            /\ object_type = "none"
            /\ query = NoQuery
            /\ filters = <<>>
            /\ pc = "date_loop"
       ELSE /\ object_types = <<>>
            /\ created_after = NoTimestamp
            /\ modified_after = NoTimestamp
            /\ object_type \in ObjectTypeArgs
            /\ query \in (IF op = "delete_by_query" THEN Queries ELSE {NoQuery})
            /\ filters = IF op = "delete_by_property"
                         THEN << _build_property_exists_filter("email") >>
                         ELSE <<>>
            /\ pc = CASE op = "delete_by_query" -> "query_start"
                      [] op = "delete_by_property" -> "search_leg"
                      [] OTHER -> "list_page"
    /\ InitSearchLocals
    /\ InitListLocals
    /\ InitLoggerLocals
    /\ InitModuleLocals
    /\ InitDeleteLocals
    /\ calls = <<>>
    /\ result = "none"

NextOps ==
    \/ DateDone
    \/ DateUsageError
    \/ DateNoCriteria
    \/ DateSearch
    \/ QueryList
    \/ QueryText
    \/ ListOk
    \/ ListErr
    \/ AfterList
    \/ SearchFirstOk
    \/ SearchFirstErr
    \/ SearchPageOk
    \/ SearchPageErr
    \/ AfterSearch
    \/ BulkOk
    \/ BulkErr
    \/ IndivOk
    \/ IndivErr
    \/ SingleReturn
    \/ DateCount

SpecOps == InitOps /\ [][NextOps]_vars

----------------------------------------------------------------------------
(* Specification of _build_date_filter applied to two timestamps in turn,   *)
(* as _get_records_by_date_criteria applies it to created_after and then    *)
(* to modified_after                                                        *)

\* the timestamp the next _build_date_filter call is given
NextTimestamp == IF pc = "build_created" THEN created_after ELSE modified_after

\* _build_date_filter returns the predicate, which is appended to filters
BuildFilter ==
    /\ op = "_build_date_filter"
    /\ pc \in {"build_created", "build_modified"}
    /\ ~IsNaive(NextTimestamp)
    /\ filters' = Append(filters,
           _build_date_filter(IF pc = "build_created" THEN "createdate"
                              ELSE "lastmodifieddate", NextTimestamp))
    /\ pc' = IF pc = "build_created" THEN "build_modified" ELSE "done"
    /\ result' = IF pc = "build_created" THEN result ELSE filters'
    /\ UNCHANGED <<op, envVars, loggerVars, moduleVars, object_type, dateVars, all_records,
                   last_record_id, total, search_payload, batch_records,
                   last_id, after, legs, listVars, deleteVars, calls>>

\* _build_date_filter raises ValueError: the timestamp has no tzinfo
BuildFilterNaive ==
    /\ op = "_build_date_filter"
    /\ pc \in {"build_created", "build_modified"}
    /\ IsNaive(NextTimestamp)
    /\ pc' = "raised"
    /\ result' = "ValueError"
    /\ UNCHANGED <<op, envVars, loggerVars, moduleVars, object_type, dateVars, searchVars, listVars,
                   deleteVars, calls>>

\* UTC offsets of the timezones a timestamp may carry, in minutes
Offsets == {-300, 0, 60, 330}

\* the timezone-aware datetime that denotes instant t in the timezone at
\* offset o
AtOffset(t, o) == [given |-> TRUE, aware |-> TRUE, wall |-> t + o, offset |-> o]

\* a timezone-naive datetime reading wall
Naive(wall) == [given |-> TRUE, aware |-> FALSE, wall |-> wall, offset |-> 0]

GivenTimestamps ==
    {AtOffset(t, o) : t \in 0..MaxInstant, o \in Offsets}
        \cup {Naive(t) : t \in 0..MaxInstant}

InitDate ==
    /\ op = "_build_date_filter"
    /\ pc = "build_created"
    /\ remote = "honest"
    /\ store = NoCategory
    /\ matching = NoCategory
    /\ totalCapped = FALSE
    /\ NoArguments
    /\ object_type = "contacts"
    /\ object_types = <<>>
    /\ created_after \in GivenTimestamps
    /\ modified_after \in GivenTimestamps
    /\ deletion_counts = <<>>
    /\ filters = <<>>
    /\ InitSearchLocals
    /\ InitListLocals
    /\ InitLoggerLocals
    /\ InitModuleLocals
    /\ InitDeleteLocals
    /\ calls = <<>>
    /\ result = "none"

NextDate ==
    \/ BuildFilter
    \/ BuildFilterNaive

SpecDate == InitDate /\ [][NextDate]_vars
----------------------------------------------------------------------------
(* HubSpotDeleter.delete_from_csv                                           *)
(* The file is what csv.DictReader makes of it: fieldnames (None for an     *)
(* empty file, has_header FALSE) and one dict per row.  An identifier is    *)
(* held by its numeric value; the empty string is 0.                        *)

\* variant of CsvRecords that queues the rows with an empty identifier too
RECURSIVE CsvRecords_KeepsEmpty(_, _)
CsvRecords_KeepsEmpty(rows, col) ==
    IF rows = <<>>
    THEN <<>>
    ELSE << Head(rows)[col] >> \o CsvRecords_KeepsEmpty(Tail(rows), col)

\* the for loop over the reader: one {'id': ...} per row whose id is truthy
RECURSIVE CsvRecords(_, _)
CsvRecords(rows, col) ==
    IF rows = <<>>
    THEN <<>>
    ELSE (IF Head(rows)[col] # 0 THEN << Head(rows)[col] >> ELSE <<>>)
         \o CsvRecords(Tail(rows), col)

\* an empty file: reader.fieldnames is None, the membership test raises
\* TypeError, which is logged and re-raised
CsvNoHeader ==
    /\ op = "delete_from_csv"
    /\ pc = "csv_open"
    /\ ~csv_file.has_header
    /\ pc' = "raised"
    /\ result' = "TypeError"
    /\ UNCHANGED <<op, envVars, loggerVars, moduleVars, object_type, dateVars, searchVars, listVars,
                   deleteVars, calls>>

\* variant of CsvMissingColumn that reads on and finds no identifier
CsvMissingColumn_Queues ==
    /\ op = "delete_from_csv"
    /\ pc = "csv_open"
    /\ csv_file.has_header
    /\ id_column \notin Range(csv_file.fieldnames)
    /\ pc' = "del_returned"
    /\ UNCHANGED <<op, envVars, loggerVars, moduleVars, object_type, dateVars, searchVars, listVars,
                   deleteVars, calls, result>>

\* the identifier column is not among the fieldnames: ValueError, logged and
\* re-raised
CsvMissingColumn ==
    /\ op = "delete_from_csv"
    /\ pc = "csv_open"
    /\ csv_file.has_header
    /\ id_column \notin Range(csv_file.fieldnames)
    /\ pc' = "raised"
    /\ result' = "ValueError"
    /\ UNCHANGED <<op, envVars, loggerVars, moduleVars, object_type, dateVars, searchVars, listVars,
                   deleteVars, calls>>

\* the rows are read and _delete_records is entered with the records, under
\* the caller's object_type
CsvRead ==
    /\ op = "delete_from_csv"
    /\ pc = "csv_open"
    /\ csv_file.has_header
    /\ id_column \in Range(csv_file.fieldnames)
    /\ records' = CsvRecords(csv_file.rows, id_column)
    /\ i' = 0
    /\ j' = 0
    /\ deleted_count' = 0
    /\ pc' = IF Len(records') > 0 THEN "del_bulk" ELSE "del_returned"
    /\ UNCHANGED <<op, envVars, loggerVars, moduleVars, object_type, dateVars, searchVars, listVars,
                   calls, result>>

\* delete_from_csv returns the deleter's count
CsvReturn ==
    /\ op = "delete_from_csv"
    /\ pc = "del_returned"
    /\ pc' = "done"
    /\ result' = deleted_count
    /\ UNCHANGED <<op, envVars, loggerVars, moduleVars, object_type, dateVars, searchVars, listVars,
                   deleteVars, calls>>

\* a row of a file whose only column is col
Row(col, id) ==
    IF col = "hubspot_id" THEN [hubspot_id |-> id] ELSE [record_id |-> id]

\* files with one identifier column, named hubspot_id or record_id
PlainFiles ==
    {[has_header |-> TRUE, fieldnames |-> << col >>,
      rows |-> [k \in 1..Len(ids) |-> Row(col, ids[k])]] :
        col \in {"hubspot_id", "record_id"},
        ids \in UNION {[1..n -> 0..MaxCsvId] : n \in 0..MaxRows}}

\* files with an identifier column and a category column
TypedFiles ==
    {[has_header |-> TRUE, fieldnames |-> <<"hubspot_id", "object_type">>,
      rows |-> rows] :
        rows \in UNION {[1..n -> [hubspot_id : 0..MaxCsvId,
                                  object_type : {"contacts", "companies"}]] :
                           n \in 0..MaxTypedRows}}

CsvFiles == {NoFile} \cup PlainFiles \cup TypedFiles

InitCsv ==
    /\ op = "delete_from_csv"
    /\ pc = "csv_open"
    /\ remote = "honest"
    /\ store = NoCategory
    /\ matching = NoCategory
    /\ totalCapped = FALSE
    /\ query = NoQuery
    /\ outcome = NoOutcome
    /\ NoMappingArguments
    /\ csv_file \in CsvFiles
    /\ id_column \in {"hubspot_id", "record_id"}
    /\ object_type = "contacts"
    /\ filters = <<>>
    /\ InitDateLocals
    /\ InitSearchLocals
    /\ InitListLocals
    /\ InitLoggerLocals
    /\ InitModuleLocals
    /\ InitDeleteLocals
    /\ calls = <<>>
    /\ result = "none"

NextCsv ==
    \/ CsvNoHeader
    \/ CsvMissingColumn
    \/ CsvRead
    \/ BulkOk
    \/ BulkErr
    \/ IndivOk
    \/ IndivErr
    \/ CsvReturn

SpecCsv == InitCsv /\ [][NextCsv]_vars
----------------------------------------------------------------------------
(* HubSpotDeleter.delete_all_records                                        *)

\* all_object_types is computed and the for loop begins
AllStart ==
    /\ op = "delete_all_records"
    /\ pc = "all_start"
    /\ object_types' = _get_all_object_types \o _get_custom_object_types
    /\ deletion_counts' = <<>>
    /\ pc' = "all_loop"
    /\ UNCHANGED <<op, envVars, loggerVars, moduleVars, object_type, created_after, modified_after,
                   searchVars, listVars, deleteVars, calls, result>>

\* the next category: delete_objects_by_type enters the listing walk
AllNext ==
    /\ op = "delete_all_records"
    /\ pc = "all_loop"
    /\ object_types # <<>>
    /\ object_type' = Head(object_types)
    /\ object_types' = Tail(object_types)
    /\ list_records' = <<>>
    /\ list_after' = None
    /\ pc' = "list_page"
    /\ UNCHANGED <<op, envVars, loggerVars, moduleVars, created_after, modified_after, deletion_counts,
                   searchVars, deleteVars, calls, result>>

\* delete_objects_by_type has returned: the category's count is recorded
AllCount ==
    /\ op = "delete_all_records"
    /\ pc = "del_returned"
    /\ deletion_counts' = (object_type :> deleted_count) @@ deletion_counts
    /\ pc' = "all_loop"
    /\ UNCHANGED <<op, envVars, loggerVars, moduleVars, object_type, object_types, created_after,
                   modified_after, searchVars, listVars, deleteVars, calls,
                   result>>

\* the for loop is exhausted: return the counts
AllDone ==
    /\ op = "delete_all_records"
    /\ pc = "all_loop"
    /\ object_types = <<>>
    /\ pc' = "done"
    /\ result' = deletion_counts
    /\ UNCHANGED <<op, envVars, loggerVars, moduleVars, object_type, dateVars, searchVars, listVars,
                   deleteVars, calls>>

InitAll ==
    /\ op = "delete_all_records"
    /\ pc = "all_start"
    /\ remote = "honest"
    /\ \E n \in 0..AllMaxContacts : \E m \in 0..AllMaxDeals :
          store = [NoCategory EXCEPT !["contacts"] = Prefix(n),
                                     !["deals"] = Prefix(m)]
    /\ matching = NoCategory
    /\ totalCapped = FALSE
    /\ NoArguments
    /\ object_type = "none"
    /\ filters = <<>>
    /\ InitDateLocals
    /\ InitSearchLocals
    /\ InitListLocals
    /\ InitLoggerLocals
    /\ InitModuleLocals
    /\ InitDeleteLocals
    /\ calls = <<>>
    /\ result = "none"

NextAll ==
    \/ AllStart
    \/ AllNext
    \/ ListOk
    \/ ListErr
    \/ AfterList
    \/ BulkOk
    \/ BulkErr
    \/ IndivOk
    \/ IndivErr
    \/ AllCount
    \/ AllDone

SpecAll == InitAll /\ [][NextAll]_vars
----------------------------------------------------------------------------
(* HubspotClient (migrator/utils/hubspot_client.py)                         *)
(* One request: the transport either fails (requests.RequestException) or  *)
(* gives a response with a status code, headers and a body.  A header      *)
(* value is the sequence of its characters.                                 *)

DecimalDigits == <<"0", "1", "2", "3", "4", "5", "6", "7", "8", "9">>

\* whether int(text) succeeds: a non-empty run of decimal digits
IsDecimal(text) ==
    text # <<>> /\ \A k \in 1..Len(text) : text[k] \in Range(DecimalDigits)

\* int(text) for a run of decimal digits
RECURSIVE int(_)
int(text) ==
    IF text = <<>>
    THEN 0
    ELSE 10 * int(SubSeq(text, 1, Len(text) - 1))
         + PositionIn(DecimalDigits, text[Len(text)]) - 1

\* what a request gives its caller: a returned value or a raised error
Returned(json) ==
    [kind |-> "returned", error |-> "none", status_code |-> 0,
     has_retry_after |-> FALSE, retry_after |-> 0, duplicate_info |-> FALSE,
     json |-> json]

Raised(error, status_code) ==
    [kind |-> "raised", error |-> error, status_code |-> status_code,
     has_retry_after |-> FALSE, retry_after |-> 0, duplicate_info |-> FALSE,
     json |-> FALSE]

\* requests.Response.ok: raise_for_status() does not raise
ok(response) == ~(400 <= response.status_code /\ response.status_code < 600)

\* the error _handle_error_response raises for the response; when no branch
\* applies it returns and the request returns None
_handle_error_response(response) ==
    IF response.status_code = 429
    THEN IF response.retry_after.present /\ response.retry_after.text # <<>>
         THEN IF IsDecimal(response.retry_after.text)
              THEN [Raised("HubspotRateLimitError", 429) EXCEPT
                       !.has_retry_after = TRUE,
                       !.retry_after = int(response.retry_after.text)]
              ELSE Raised("ValueError", 0)
         ELSE Raised("HubspotRateLimitError", 429)
    ELSE IF response.status_code = 409
    THEN [Raised("HubspotDuplicateError", 409) EXCEPT
             !.duplicate_info =
                 response.json_body /\ response.duplicateProperties]
    ELSE IF 400 <= response.status_code /\ response.status_code < 500
    THEN Raised("HubspotClientError", response.status_code)
    ELSE IF response.status_code >= 500
    THEN Raised("HubspotServerError", response.status_code)
    ELSE Returned(FALSE)

\* what one get / post / put / delete may give.  response.json() of a body
\* that is not JSON raises an error that is a RequestException in some
\* versions of requests (wrapped into HubspotError) and a plain ValueError
\* in others.
Request(method) ==
    IF outcome.transport_error
    THEN {Raised("HubspotError", 0)}
    ELSE IF ok(outcome)
    THEN IF method = "delete"
         THEN {Returned(FALSE)}
         ELSE IF outcome.json_body
              THEN {Returned(TRUE)}
              ELSE {Raised("HubspotError", 0), Raised("ValueError", 0)}
    ELSE {_handle_error_response(outcome)}

Finish(r) ==
    /\ result' = r
    /\ pc' = IF r.kind = "raised" THEN "raised" ELSE "done"
    /\ UNCHANGED <<op, envVars, loggerVars, moduleVars, object_type, dateVars, searchVars, listVars,
                   deleteVars, calls>>

get == op = "get" /\ pc = "request" /\ \E r \in Request("get") : Finish(r)

post == op = "post" /\ pc = "request" /\ \E r \in Request("post") : Finish(r)

put == op = "put" /\ pc = "request" /\ \E r \in Request("put") : Finish(r)

delete ==
    op = "delete_request" /\ pc = "request"
        /\ \E r \in Request("delete") : Finish(r)

\* Retry-After headers a response may carry: none, empty, delay-seconds,
\* HTTP-date
RetryAfterHeaders ==
    {NoHeader,
     [present |-> TRUE, text |-> <<>>],
     [present |-> TRUE, text |-> <<"0">>],
     [present |-> TRUE, text |-> <<"6", "0">>],
     [present |-> TRUE, text |-> <<"W", "e", "d">>]}

StatusCodes == {200, 204, 400, 404, 409, 429, 500, 503}

Outcomes ==
    {[NoOutcome EXCEPT !.transport_error = TRUE]}
        \cup [transport_error : {FALSE}, status_code : StatusCodes,
              retry_after : RetryAfterHeaders, json_body : BOOLEAN,
              duplicateProperties : BOOLEAN]

InitClient ==
    /\ op \in {"get", "post", "put", "delete_request"}
    /\ pc = "request"
    /\ remote = "honest"
    /\ store = NoCategory
    /\ matching = NoCategory
    /\ totalCapped = FALSE
    /\ query = NoQuery
    /\ csv_file = NoFile
    /\ id_column = "none"
    /\ outcome \in Outcomes
    /\ NoMappingArguments
    /\ object_type = "contacts"
    /\ filters = <<>>
    /\ InitDateLocals
    /\ InitSearchLocals
    /\ InitListLocals
    /\ InitLoggerLocals
    /\ InitModuleLocals
    /\ InitDeleteLocals
    /\ calls = <<>>
    /\ result = "none"

NextClient ==
    \/ get
    \/ post
    \/ put
    \/ delete

SpecClient == InitClient /\ [][NextClient]_vars
----------------------------------------------------------------------------
(* LoggerConfig (migrator/utils/logger.py)                                  *)
(* A handler is held by its class: "stream", "file" or "syslog".  A path is *)
(* its directory part and its file name; None is NoPath.  A caller that     *)
(* catches the error of a setup_logging call may go on calling.             *)

NoPath == [given |-> FALSE, dirname |-> "", basename |-> ""]

\* attributes of the logging module that name a level
LevelNames == {"DEBUG", "INFO", "WARNING", "ERROR", "CRITICAL"}

\* str.upper() on the level names a caller passes
upper(log_level) ==
    CASE log_level = "debug" -> "DEBUG"
      [] log_level = "info" -> "INFO"
      [] log_level = "verbose" -> "VERBOSE"
      [] OTHER -> log_level

\* a construction LoggerConfig() and the instance it returned
Construction(instance) ==
    [kind |-> "LoggerConfig", instance |-> instance, log_level |-> "",
     log_file |-> NoPath, syslog_address |-> FALSE, raised |-> "none"]

\* a call of setup_logging, its arguments and the error it raised
SetupCall(log_level, log_file, syslog_address, raised) ==
    [kind |-> "setup_logging", instance |-> _instance,
     log_level |-> log_level, log_file |-> log_file,
     syslog_address |-> syslog_address, raised |-> raised]

\* LoggerConfig(): __new__ creates the instance once, __init__ sets the
\* default console logging once
LoggerConfig ==
    /\ op = "logger"
    /\ Len(log_calls) < MaxLogCalls
    /\ _instance' = IF _instance = None THEN 1 ELSE _instance
    /\ _initialized' = TRUE
    /\ level' = IF _initialized THEN level ELSE "INFO"
    /\ handlers' = IF ~_initialized /\ handlers = <<>>
                   THEN <<"stream">>
                   ELSE handlers
    /\ log_calls' = Append(log_calls, Construction(_instance'))
    /\ UNCHANGED <<op, pc, envVars, moduleVars, object_type, dateVars, searchVars,
                   listVars, deleteVars, calls, result>>

\* setup_logging: clear the handlers, look the level up, add the stream
\* handler, create the directory of log_file and add the file handler, add
\* the syslog handler.  An unknown level name raises before any handler is
\* added; os.makedirs of an empty directory part raises before the file
\* handler is added.
setup_logging ==
    /\ op = "logger"
    /\ _instance # None
    /\ Len(log_calls) < MaxLogCalls
    /\ \E log_level \in {"INFO", "debug", "verbose"} :
       \E log_file \in {NoPath,
                        [given |-> TRUE, dirname |-> "logs", basename |-> "app.log"],
                        [given |-> TRUE, dirname |-> "", basename |-> "app.log"]} :
       \E syslog_address \in BOOLEAN :
          LET raised ==
                  IF upper(log_level) \notin LevelNames THEN "AttributeError"
                  ELSE IF log_file.given /\ log_file.dirname = ""
                       THEN "FileNotFoundError"
                       ELSE "none"
          IN  /\ level' = IF raised = "AttributeError" THEN level
                          ELSE upper(log_level)
              /\ handlers' =
                    IF raised = "AttributeError" THEN <<>>
                    ELSE IF raised = "FileNotFoundError"
                         THEN <<"stream">>
                         ELSE <<"stream">>
                              \o (IF log_file.given THEN <<"file">> ELSE <<>>)
                              \o (IF syslog_address THEN <<"syslog">> ELSE <<>>)
              /\ log_calls' = Append(log_calls,
                     SetupCall(log_level, log_file, syslog_address, raised))
              /\ result' = raised
    /\ UNCHANGED <<op, pc, envVars, moduleVars, _instance, _initialized, object_type,
                   dateVars, searchVars, listVars, deleteVars, calls>>

InitLogger ==
    /\ op = "logger"
    /\ pc = "logger"
    /\ remote = "honest"
    /\ store = NoCategory
    /\ matching = NoCategory
    /\ totalCapped = FALSE
    /\ NoArguments
    /\ object_type = "none"
    /\ filters = <<>>
    /\ InitDateLocals
    /\ InitSearchLocals
    /\ InitListLocals
    /\ InitLoggerLocals
    /\ InitModuleLocals
    /\ InitDeleteLocals
    /\ calls = <<>>
    /\ result = "none"

NextLogger ==
    \/ LoggerConfig
    \/ setup_logging

SpecLogger == InitLogger /\ [][NextLogger]_vars
----------------------------------------------------------------------------
(* The module-level functions of deleter/core.py: initialize_deleter stores *)
(* a new HubSpotDeleter in _deleter_instance, and each operation runs the   *)
(* method of the same name on what get_deleter returns.  Instances are      *)
(* named by the order of their construction.                                *)

\* most initialize_deleter calls before the operation is called
MaxInitCalls == 2

\* variant of initialize_deleter that keeps the instance it already has
initialize_deleter_KeepsFirst ==
    /\ op = "module"
    /\ pc = "module"
    /\ constructed < MaxInitCalls
    /\ constructed' = constructed + 1
    /\ _deleter_instance' = IF _deleter_instance = None THEN constructed + 1
                            ELSE _deleter_instance
    /\ UNCHANGED <<op, pc, envVars, loggerVars, self, object_type, dateVars,
                   searchVars, listVars, deleteVars, calls, result>>

initialize_deleter ==
    /\ op = "module"
    /\ pc = "module"
    /\ constructed < MaxInitCalls
    /\ constructed' = constructed + 1
    /\ _deleter_instance' = constructed + 1
    /\ UNCHANGED <<op, pc, envVars, loggerVars, self, object_type, dateVars,
                   searchVars, listVars, deleteVars, calls, result>>

\* a module-level operation: get_deleter() raises RuntimeError when no
\* instance is stored, else the method is entered on the stored instance
\* with its arguments
ModuleCall(name, entry, c, types, created, modified, fs) ==
    /\ pc = "module"
    /\ op' = name
    /\ IF _deleter_instance = None
       THEN /\ pc' = "raised"
            /\ result' = "RuntimeError"
            /\ UNCHANGED <<self, object_type, dateVars, filters>>
       ELSE /\ pc' = entry
            /\ self' = _deleter_instance
            /\ object_type' = c
            /\ object_types' = types
            /\ created_after' = created
            /\ modified_after' = modified
            /\ filters' = fs
            /\ UNCHANGED <<deletion_counts, result>>
    /\ UNCHANGED <<envVars, loggerVars, _deleter_instance, constructed,
                   all_records, last_record_id, total, search_payload,
                   batch_records, last_id, after, legs, listVars, deleteVars,
                   calls>>

delete_all_records ==
    /\ op = "module"
    /\ ModuleCall("delete_all_records", "all_start", "none", <<>>,
                  NoTimestamp, NoTimestamp, <<>>)

delete_objects_by_type ==
    /\ op = "module"
    /\ ModuleCall("delete_objects_by_type", "list_page", "contacts", <<>>,
                  NoTimestamp, NoTimestamp, <<>>)

delete_by_date_criteria ==
    /\ op = "module"
    /\ \E created \in Timestamps :
          ModuleCall("delete_by_date_criteria", "date_loop", "none",
                     <<"contacts", "companies">>, created, NoTimestamp, <<>>)

delete_by_query ==
    /\ op = "module"
    /\ ModuleCall("delete_by_query", "query_start", "contacts", <<>>,
                  NoTimestamp, NoTimestamp, <<>>)

delete_from_csv ==
    /\ op = "module"
    /\ ModuleCall("delete_from_csv", "csv_open", "contacts", <<>>,
                  NoTimestamp, NoTimestamp, <<>>)

delete_by_property ==
    /\ op = "module"
    /\ ModuleCall("delete_by_property", "search_leg", "contacts", <<>>,
                  NoTimestamp, NoTimestamp,
                  << _build_property_exists_filter("email") >>)

\* files the caller may name: one without a header line, one without the
\* hubspot_id column, one with a single identifier
ModuleFiles ==
    {NoFile,
     [has_header |-> TRUE, fieldnames |-> <<"record_id">>,
      rows |-> << Row("record_id", 1) >>],
     [has_header |-> TRUE, fieldnames |-> <<"hubspot_id">>,
      rows |-> << Row("hubspot_id", 1) >>]}

\* the store holds one contact, which matches: no enumeration has a second
\* page
InitModule ==
    /\ op = "module"
    /\ pc = "module"
    /\ remote = "honest"
    /\ store = [NoCategory EXCEPT !["contacts"] = {1}]
    /\ matching = [NoCategory EXCEPT !["contacts"] = {1}]
    /\ totalCapped = FALSE
    /\ query \in Queries
    /\ csv_file \in ModuleFiles
    /\ id_column = "hubspot_id"
    /\ outcome = NoOutcome
    /\ NoMappingArguments
    /\ object_type = "none"
    /\ filters = <<>>
    /\ InitDateLocals
    /\ InitSearchLocals
    /\ InitListLocals
    /\ InitLoggerLocals
    /\ InitModuleLocals
    /\ InitDeleteLocals
    /\ calls = <<>>
    /\ result = "none"

NextModule ==
    \/ initialize_deleter
    \/ delete_all_records
    \/ delete_objects_by_type
    \/ delete_by_date_criteria
    \/ delete_by_query
    \/ delete_from_csv
    \/ delete_by_property
    \/ AllStart
    \/ AllNext
    \/ AllCount
    \/ AllDone
    \/ DateDone
    \/ DateUsageError
    \/ DateNoCriteria
    \/ DateSearch
    \/ DateCount
    \/ QueryList
    \/ QueryText
    \/ CsvNoHeader
    \/ CsvMissingColumn
    \/ CsvRead
    \/ CsvReturn
    \/ ListOk
    \/ ListErr
    \/ AfterList
    \/ SearchFirstOk
    \/ SearchFirstErr
    \/ AfterSearch
    \/ BulkOk
    \/ BulkErr
    \/ IndivOk
    \/ IndivErr
    \/ SingleReturn

SpecModule == InitModule /\ [][NextModule]_vars

----------------------------------------------------------------------------
(* DataTransformer._apply_mapping (migrator/transform/transform.py): the    *)
(* lookup of one cell value in the mapping of its column.  A text is the    *)
(* sequence of its characters; a value is None, NaN, a str or an int.       *)

\* most items a mapping holds
MaxItems == 2

NaN == [kind |-> "NaN", text |-> <<>>, n |-> 0]
StrValue(text) == [kind |-> "str", text |-> text, n |-> 0]
IntValue(n) == [kind |-> "int", text |-> <<>>, n |-> n]

\* pd.isna(value) for a scalar
isna(v) == v.kind \in {"None", "NaN"}

Uppercase == <<"A", "B", "C", "D", "E", "F", "G", "H", "I", "J", "K", "L", "M",
               "N", "O", "P", "Q", "R", "S", "T", "U", "V", "W", "X", "Y", "Z">>
Lowercase == <<"a", "b", "c", "d", "e", "f", "g", "h", "i", "j", "k", "l", "m",
               "n", "o", "p", "q", "r", "s", "t", "u", "v", "w", "x", "y", "z">>

\* str.lower(): every cased character replaced by its lowercase
lower(text) ==
    [k \in 1..Len(text) |->
        IF text[k] \in Range(Uppercase)
        THEN Lowercase[PositionIn(Uppercase, text[k])]
        ELSE text[k]]

\* str_value: the value itself when it is a str, else str(value)
str_value(v) ==
    IF v.kind = "str"
    THEN v.text
    ELSE LET digits == Digits(v.n)
         IN  [k \in 1..Len(digits) |-> DecimalDigits[digits[k] + 1]]

\* the wildcard key
Wildcard == <<"*">>

\* {k.lower() if k != '*' else k: v for k, v in mapping.items()}, the items
\* in the order of the comprehension (a later item replaces an earlier one
\* of the same key)
LowerKeys(m) ==
    [k \in 1..Len(m) |->
        [key |-> IF m[k].key # Wildcard THEN lower(m[k].key) ELSE m[k].key,
         value |-> m[k].value]]

\* dict.dict_get(key, default) on the items of a dict
dict_get(m, key, default) ==
    LET at == {k \in 1..Len(m) : m[k].key = key}
    IN  IF at = {}
        THEN default
        ELSE m[CHOOSE k \in at : \A l \in at : l <= k].value

\* variant of _apply_mapping that looks the value up as written, whatever
\* case_sensitive says
_apply_mapping_AsWritten(v, m, sensitive) ==
    IF isna(v)
    THEN v
    ELSE dict_get(m, str_value(v), dict_get(m, Wildcard, v))

_apply_mapping(v, m, sensitive) ==
    IF isna(v)
    THEN v
    ELSE LET lookup_value == IF sensitive THEN str_value(v)
                             ELSE lower(str_value(v))
             lowered == IF ~sensitive THEN LowerKeys(m) ELSE m
         IN  dict_get(lowered, lookup_value, dict_get(lowered, Wildcard, v))

\* one call of _apply_mapping, as Series.apply makes it for a cell
apply_mapping ==
    /\ op = "_apply_mapping"
    /\ pc = "apply"
    /\ result' = _apply_mapping(value, mapping, case_sensitive)
    /\ pc' = "done"
    /\ UNCHANGED <<op, envVars, loggerVars, moduleVars, object_type, dateVars, searchVars,
                   listVars, deleteVars, calls>>

\* keys of the mappings: a status in three spellings, a second status, a
\* number and the wildcard
MappingKeys ==
    {<<"O", "n">>, <<"o", "n">>, <<"O", "N">>, <<"O", "f", "f">>, <<"1">>,
     Wildcard}

\* values a mapping assigns
MappedValues == {StrValue(<<"1">>), StrValue(<<"0">>)}

\* dicts of at most MaxItems items: the keys of a dict are distinct
Mappings ==
    UNION {{m \in [1..n -> [key : MappingKeys, value : MappedValues]] :
               \A k, l \in 1..n : m[k].key = m[l].key => k = l} :
           n \in 0..MaxItems}

\* the cells of a column
CellValues ==
    {NoValue, NaN, IntValue(1), IntValue(10)}
        \cup {StrValue(text) : text \in MappingKeys \cup {<<"o", "f", "f">>, <<"U", "p">>}}

InitMapping ==
    /\ op = "_apply_mapping"
    /\ pc = "apply"
    /\ remote = "honest"
    /\ store = NoCategory
    /\ matching = NoCategory
    /\ totalCapped = FALSE
    /\ query = NoQuery
    /\ csv_file = NoFile
    /\ id_column = "none"
    /\ outcome = NoOutcome
    /\ value \in CellValues
    /\ mapping \in Mappings
    /\ case_sensitive \in BOOLEAN
    /\ object_type = "none"
    /\ filters = <<>>
    /\ InitDateLocals
    /\ InitSearchLocals
    /\ InitListLocals
    /\ InitLoggerLocals
    /\ InitModuleLocals
    /\ InitDeleteLocals
    /\ calls = <<>>
    /\ result = "none"

NextMapping == apply_mapping

SpecMapping == InitMapping /\ [][NextMapping]_vars

----------------------------------------------------------------------------
(* Properties of the filtered search *)

Last(s) == s[Len(s)]

IsFirstRequest(c) == c.kind = "search" /\ c.payload.after = None

\* the first requests of the legs started so far, in order
FirstRequests == SelectSeq(calls, IsFirstRequest)

\* the id predicate of a search payload: the last filter of its one group
IdFilter(p) == Last(p.filterGroups[1].filters)

\* the matching ids above a threshold, ascending
Above(threshold) ==
    SortedSeq({id \in matching[object_type] : id > threshold})

\* C1: against an honest remote a finished search returns exactly the
\* matching ids, each exactly once, whatever their number (none, one, just
\* below the cap, the cap, one more, two and a half caps).
SearchComplete ==
    (op = "search" /\ pc = "done") =>
        /\ Range(result) = matching[object_type]
        /\ Len(result) = Cardinality(matching[object_type])

\* C1 witness: a store of two and a half caps of matching records 1..N has
\* been enumerated in three legs.
SearchCompleteWitness ==
    /\ op = "search" /\ pc = "done"
    /\ matching[object_type] = 1..(2 * LEG_CAP + PAGE_LIMIT)
    /\ Len(legs) = 3
    /\ Len(result) = 2 * LEG_CAP + PAGE_LIMIT

\* C2: every record of a later leg has an id strictly greater than every
\* record of an earlier leg; each leg after the first asks for ids strictly
\* greater (GT) than the last id of the leg before it; no id is returned
\* twice.
LegSeamStrict ==
    /\ \A a \in 1..Len(legs) : \A b \in 1..Len(legs) :
          a < b => \A x \in Range(legs[a].records) :
                     \A y \in Range(legs[b].records) : x < y
    /\ \A k \in 1..Len(FirstRequests) :
          LET f == IdFilter(FirstRequests[k].payload)
          IN  /\ f.propertyName = "hs_object_id"
              /\ f.operator = "GT"
              /\ f.value = IF k = 1 THEN 0 ELSE Last(legs[k - 1].records)
    /\ \A m \in 1..Len(all_records) : \A n \in 1..Len(all_records) :
          m < n => all_records[m] # all_records[n]

\* C2 witness: with LEG_CAP + 1 records the second leg has returned exactly
\* the one record above the cap.
LegSeamWitness ==
    /\ matching[object_type] = 1..(LEG_CAP + 1)
    /\ Len(legs) = 2
    /\ legs[1].records = [k \in 1..LEG_CAP |-> k]
    /\ legs[2].threshold = LEG_CAP
    /\ legs[2].records = << LEG_CAP + 1 >>

\* C9: no request is sent in a leg that already holds LEG_CAP records, and
\* a leg stopped at the cap holds exactly the first LEG_CAP matching records
\* above its threshold.
HardStopAtCap ==
    /\ \A k \in 1..Len(calls) :
          calls[k].kind = "search" => calls[k].acc < LEG_CAP
    /\ \A k \in 1..Len(legs) :
          LET hits == Above(legs[k].threshold)
          IN  legs[k].records = SubSeq(hits, 1, Min(LEG_CAP, Len(hits)))

\* C9 witness: a leg has ended holding LEG_CAP records while the last
\* response still carried a cursor.
HardStopWitness ==
    /\ pc = "search_leg"
    /\ Len(legs) >= 1
    /\ Len(batch_records) = LEG_CAP
    /\ after # None

\* C3 (as claimed): a leg whose first response reports a positive total and
\* that drains no record ends the search with an internal-consistency error.
ZeroDrainRaises ==
    \A k \in 1..Len(legs) :
        (legs[k].total > 0 /\ Len(legs[k].records) = 0) =>
            (pc = "raised" /\ result = "InternalConsistencyError")

\* C10 (as claimed): the thresholds of the successive legs of a search
\* strictly increase, whatever the remote returns.
ThresholdStrictlyIncreases ==
    \A k \in 1..(Len(FirstRequests) - 1) :
        IdFilter(FirstRequests[k].payload).value
            < IdFilter(FirstRequests[k + 1].payload).value

----------------------------------------------------------------------------
(* Properties of the listing walk *)

\* C8: when the k-th listing request fails, the walk does not raise, sends
\* no further request and returns exactly the records of the k-1 pages
\* fetched before, in page order.
ListPartialOnError ==
    /\ pc # "raised"
    /\ \A m \in 1..(Len(calls) - 1) : calls[m].ok
    /\ (op = "list" /\ pc = "done" /\ ~Last(calls).ok) =>
          LET all == SortedSeq(store[object_type])
          IN  /\ (Len(calls) - 1) * LIST_PAGE_SIZE <= Len(all)
              /\ result = SubSeq(all, 1, (Len(calls) - 1) * LIST_PAGE_SIZE)

\* C8 witness: the third listing request failed and the two pages fetched
\* before it were returned.
ListPartialWitness ==
    /\ op = "list" /\ pc = "done"
    /\ Len(calls) = 3
    /\ ~calls[3].ok
    /\ Len(result) = 2 * LIST_PAGE_SIZE

----------------------------------------------------------------------------
(* Properties of the batch deleter *)

\* number of chunks of n records
NumChunks(n) == (n + BATCH_SIZE - 1) \div BATCH_SIZE

\* positions (1-based) of the records of chunk k among n records
ChunkPositions(n, k) ==
    ((k - 1) * BATCH_SIZE + 1)..Min(k * BATCH_SIZE, n)

\* indexes in calls of the bulk-archive calls of chunk k
ArchiveCallsOf(k) ==
    {m \in 1..Len(calls) :
        calls[m].kind = "archive" /\ calls[m].at = (k - 1) * BATCH_SIZE}

\* indexes in calls of the individual delete calls for position idx
DeleteCallsOf(idx) ==
    {m \in 1..Len(calls) : calls[m].kind = "delete" /\ calls[m].idx = idx}

BulkSucceeded(k) == \E m \in ArchiveCallsOf(k) : calls[m].ok

\* what chunk k contributes to the confirmed count
Confirmed(n, k) ==
    IF BulkSucceeded(k)
    THEN Cardinality(ChunkPositions(n, k))
    ELSE Cardinality({idx \in ChunkPositions(n, k) :
                         \E m \in DeleteCallsOf(idx) : calls[m].ok})

RECURSIVE ConfirmedUpTo(_, _)
ConfirmedUpTo(n, k) ==
    IF k = 0 THEN 0 ELSE ConfirmedUpTo(n, k - 1) + Confirmed(n, k)

\* C4: the count returned by _delete_records is the sum over the chunks of
\* the chunk size when the chunk's bulk call succeeded, otherwise of the
\* number of its individual deletes that succeeded.
FallbackAccounting ==
    (op = "delete" /\ pc = "done") =>
        result = ConfirmedUpTo(Len(records), NumChunks(Len(records)))

\* C4 witness: two and a half chunks, the second chunk's bulk call failed and
\* one of its two individual deletes succeeded: BATCH_SIZE + 1 + the half
\* chunk are confirmed.
FallbackAccountingWitness ==
    /\ op = "delete" /\ pc = "done"
    /\ Len(records) = 2 * BATCH_SIZE + 1
    /\ BulkSucceeded(1) /\ ~BulkSucceeded(2) /\ BulkSucceeded(3)
    /\ Confirmed(Len(records), 2) = 1
    /\ result = BATCH_SIZE + 1 + 1

\* C5: an individual delete is only ever sent for a record of a chunk whose
\* bulk call was sent before and failed, at most once per record; once the
\* deleter has returned, every chunk has had exactly one bulk call, a chunk
\* whose bulk call succeeded no individual delete, and a chunk whose bulk
\* call failed exactly one individual delete per record.
CallsPerChunk ==
    /\ \A m \in 1..Len(calls) :
          calls[m].kind = "delete" =>
              /\ \E b \in 1..(m - 1) :
                    /\ calls[b].kind = "archive"
                    /\ ~calls[b].ok
                    /\ calls[m].idx \in (calls[b].at + 1)..(calls[b].at + Len(calls[b].ids))
              /\ Cardinality(DeleteCallsOf(calls[m].idx)) = 1
    /\ (op = "delete" /\ pc = "done") =>
          \A k \in 1..NumChunks(Len(records)) :
              /\ Cardinality(ArchiveCallsOf(k)) = 1
              /\ \A idx \in ChunkPositions(Len(records), k) :
                    Cardinality(DeleteCallsOf(idx)) =
                        IF BulkSucceeded(k) THEN 0 ELSE 1

\* C5 witness: the deleter has returned after a chunk whose bulk call
\* succeeded and a chunk whose bulk call failed.
CallsPerChunkWitness ==
    /\ op = "delete" /\ pc = "done"
    /\ Len(records) = 2 * BATCH_SIZE
    /\ BulkSucceeded(1) /\ ~BulkSucceeded(2)
    /\ Len(calls) = 2 + BATCH_SIZE

\* C6: whatever calls fail, _delete_records never raises and never stops
\* short: after a failed individual delete every later record of the chunk
\* still gets its individual delete, and every later chunk its bulk call.
FailureIsolation ==
    /\ pc # "raised"
    /\ (op = "delete" /\ pc # "done") => ENABLED NextDelete
    /\ (op = "delete" /\ pc = "done") =>
          /\ result \in 0..Len(records)
          /\ \A m \in 1..Len(calls) :
                (calls[m].kind = "delete" /\ ~calls[m].ok) =>
                    LET k == NumChunks(calls[m].idx)
                    IN  /\ \A idx \in ChunkPositions(Len(records), k) :
                              idx > calls[m].idx =>
                                  \E n \in (m + 1)..Len(calls) :
                                      calls[n].kind = "delete" /\ calls[n].idx = idx
                        /\ \A k2 \in (k + 1)..NumChunks(Len(records)) :
                              \E n \in (m + 1)..Len(calls) :
                                  calls[n].kind = "archive"
                                  /\ calls[n].at = (k2 - 1) * BATCH_SIZE

\* C6 witness: the first individual delete of the first chunk failed, and the
\* deleter still went through the rest of that chunk and the next chunk.
FailureIsolationWitness ==
    /\ op = "delete" /\ pc = "done"
    /\ Len(records) = 2 * BATCH_SIZE
    /\ Len(calls) >= 2
    /\ calls[2].kind = "delete" /\ ~calls[2].ok
    /\ \E n \in 3..Len(calls) : calls[n].kind = "delete" /\ calls[n].idx = 2
    /\ \E n \in 3..Len(calls) : calls[n].kind = "archive" /\ calls[n].at = BATCH_SIZE

----------------------------------------------------------------------------
(* Properties of the operations built on the filtered search *)

\* C7: a classified error on any search request, first of a leg or
\* cursor-follow, ends the operation with that error: it is the last remote
\* call of the operation, so no bulk-archive or individual delete follows it
\* and the operation ends with the error instead of a partial result.
SearchFailureAborts ==
    \A m \in 1..Len(calls) :
        (calls[m].kind = "search" /\ ~calls[m].ok) =>
            /\ m = Len(calls)
            /\ pc = "raised"
            /\ result = "HubspotError"

\* C7 witness: in delete_by_date_criteria the first request of the second
\* leg failed after the first leg had collected LEG_CAP records.
SearchFailureWitness ==
    /\ op = "delete_by_date_criteria"
    /\ pc = "raised"
    /\ Len(legs) = 1
    /\ Len(all_records) = LEG_CAP
    /\ ~Last(calls).ok
    /\ Last(calls).kind = "search"
    /\ Last(calls).payload.after = None

----------------------------------------------------------------------------
(* Leg continuation and pacing of the filtered search *)

RECURSIVE LegRecordsUpTo(_)
\* the records of the first k drained legs, in order
LegRecordsUpTo(k) ==
    IF k = 0 THEN <<>> ELSE LegRecordsUpTo(k - 1) \o legs[k].records

\* C11: a search ends without paginating when a leg's first response reports
\* total 0, ends after draining a leg that reported 0 < total < LEG_CAP, and
\* starts a further leg exactly when the leg just drained reported
\* total >= LEG_CAP; the records of all drained legs are in the returned list.
LegContinuationRule ==
    /\ \A k \in 1..Len(legs) :
          /\ legs[k].total > 0
          /\ (Len(FirstRequests) > k) <=> (legs[k].total >= LEG_CAP /\
                 ~(k = Len(legs) /\ pc = "search_leg"))
    /\ all_records = LegRecordsUpTo(Len(legs))
    /\ (op = "search" /\ pc \in {"search_returned", "done"}) =>
          \/ /\ total = 0
             /\ Len(FirstRequests) = Len(legs) + 1
             /\ IsFirstRequest(Last(calls))
          \/ /\ 0 < total /\ total < LEG_CAP
             /\ Len(FirstRequests) = Len(legs)
             /\ Last(legs).total = total
    /\ (op = "search" /\ pc = "done") => result = LegRecordsUpTo(Len(legs))

\* C11 witness: a first leg that reported LEG_CAP was followed by a second
\* leg whose first response reported 0, and the first leg's records were
\* returned.
LegContinuationWitness ==
    /\ op = "search" /\ pc = "done"
    /\ Len(legs) = 1
    /\ legs[1].total >= LEG_CAP
    /\ Len(FirstRequests) = 2
    /\ total = 0
    /\ Len(result) = LEG_CAP

\* C12 (as claimed): the first request of the first leg follows no delay,
\* the first request of every later leg follows the cool-down (1000 ms), and
\* every cursor-follow request follows the intra-leg delay (100 ms).
Pacing ==
    \A m \in 1..Len(calls) :
        calls[m].kind = "search" =>
            IF calls[m].payload.after # None
            THEN calls[m].delay = 100
            ELSE IF \E n \in 1..(m - 1) : calls[n].kind = "search"
                 THEN calls[m].delay = 1000
                 ELSE calls[m].delay = 0

----------------------------------------------------------------------------
(* Usage errors of the caller-facing operations *)

\* C13 (as claimed): a delete_by_date_criteria call given a timezone-naive
\* created_after or modified_after ends in a ValueError with no remote call
\* issued, whatever object_types it was given and whatever the other
\* timestamp is.
NaiveTimestampRejected ==
    (/\ op = "delete_by_date_criteria"
     /\ IsNaive(created_after) \/ IsNaive(modified_after)
     /\ pc # "date_loop")
        => (pc = "raised" /\ result = "ValueError" /\ calls = <<>>)

\* C14 (as claimed): an operation given a category the remote does not know
\* is rejected before any remote call is attempted: no call is issued and
\* the operation does not return a result.
UnknownCategoryRejected ==
    (/\ op \in {"delete_objects_by_type", "delete_by_query", "delete_by_property"}
     /\ object_type \notin Categories)
        => (calls = <<>> /\ pc # "done")

\* C19 (as claimed): delete_by_query given a text query does not end before
\* its first search request; it ends with the count of the batch deleter.
TextQueryRuns ==
    (/\ op = "delete_by_query"
     /\ query.kind = "str"
     /\ pc \in {"done", "raised"})
        => /\ \E m \in 1..Len(calls) : calls[m].kind = "search"
           /\ pc = "done" => result = deleted_count

----------------------------------------------------------------------------
(* Properties of delete_from_csv *)

\* whether the file offers the identifier column the caller named
HasIdColumn == csv_file.has_header /\ id_column \in Range(csv_file.fieldnames)

\* positions of the rows whose identifier is not empty
FilledRows == {k \in 1..Len(csv_file.rows) : csv_file.rows[k][id_column] # 0}

\* the row that gave the record at position idx of records
RowOf(idx) ==
    CHOOSE k \in FilledRows : Cardinality({m \in FilledRows : m <= k}) = idx

\* C15: when the file lacks the identifier column, delete_from_csv ends with
\* an error (ValueError; TypeError for a file with no header line at all)
\* with no remote call issued and no row queued.
MissingColumnRejected ==
    (op = "delete_from_csv" /\ pc # "csv_open" /\ ~HasIdColumn)
        => /\ pc = "raised"
           /\ result = IF csv_file.has_header THEN "ValueError" ELSE "TypeError"
           /\ calls = <<>>
           /\ records = <<>>

\* C15 witness: a file whose rows carry identifiers under another column name
\* was rejected with ValueError.
MissingColumnWitness ==
    /\ op = "delete_from_csv"
    /\ pc = "raised"
    /\ result = "ValueError"
    /\ csv_file.fieldnames = <<"record_id">>
    /\ id_column = "hubspot_id"
    /\ Len(csv_file.rows) >= 2
    /\ csv_file.rows[1].record_id # 0

\* C16: once the rows are read, the records handed to the batch deleter are
\* the identifiers of the rows whose identifier is not empty, one per row,
\* in row order; rows with an empty identifier give none.
RowsQueuedInOrder ==
    (op = "delete_from_csv" /\ pc \notin {"csv_open", "raised"})
        => /\ Len(records) = Cardinality(FilledRows)
           /\ \A k \in FilledRows :
                 records[Cardinality({m \in FilledRows : m <= k})]
                     = csv_file.rows[k][id_column]
           /\ \A m \in 1..Len(calls) :
                 calls[m].kind = "archive" =>
                     calls[m].ids = Batch(records, calls[m].at)

\* C16 witness: 4 rows, one of them with an empty identifier, gave exactly 3
\* records, and the operation returned.
RowsQueuedWitness ==
    /\ op = "delete_from_csv"
    /\ pc = "done"
    /\ Len(csv_file.rows) = 4
    /\ HasIdColumn
    /\ Cardinality(FilledRows) = 3
    /\ Len(records) = 3
    /\ csv_file.rows[2][id_column] = 0

\* C17 (as claimed): when the file has a category column, every bulk-archive
\* and individual delete call for a row goes to that row's category.
CategoryColumnOverrides ==
    (/\ op = "delete_from_csv"
     /\ HasIdColumn
     /\ "object_type" \in Range(csv_file.fieldnames))
        => \A m \in 1..Len(calls) :
              /\ calls[m].kind = "delete" =>
                    calls[m].object_type
                        = csv_file.rows[RowOf(calls[m].idx)].object_type
              /\ calls[m].kind = "archive" =>
                    \A q \in 1..Len(calls[m].ids) :
                        calls[m].object_type
                            = csv_file.rows[RowOf(calls[m].at + q)].object_type

\* C18 (as claimed): every identifier named in the file is handed to the
\* batch deleter exactly once, also when several rows name it.
ListedOnceEach ==
    (op = "delete_from_csv" /\ pc \notin {"csv_open", "raised"})
        => \A k \in FilledRows :
              Cardinality({n \in 1..Len(records) :
                              records[n] = csv_file.rows[k][id_column]}) = 1

----------------------------------------------------------------------------
(* Properties of _build_date_filter *)

\* whether two timezone-aware datetimes denote the same instant
SameInstant(a, b) == a.wall - a.offset = b.wall - b.offset

\* C20: two timezone-aware timestamps that denote the same instant give GTE
\* predicates with the identical epoch-millisecond value, whatever their UTC
\* offsets.
TimezoneInvariantEncoding ==
    (/\ op = "_build_date_filter"
     /\ pc = "done"
     /\ SameInstant(created_after, modified_after))
        => /\ result[1].operator = "GTE"
           /\ result[2].operator = "GTE"
           /\ result[1].value = result[2].value

\* C20 witness: the same instant written at UTC-05:00 and at UTC+00:00 was
\* encoded twice.
TimezoneInvariantWitness ==
    /\ op = "_build_date_filter"
    /\ pc = "done"
    /\ created_after.offset = -300
    /\ modified_after.offset = 0
    /\ created_after.wall + 300 = modified_after.wall
    /\ result[1].value = result[2].value
    /\ result[1].value = str(modified_after.wall * 60000)

----------------------------------------------------------------------------
(* Shape of the listing walk *)

\* C21: the first listing request carries the page size and no cursor, each
\* later request carries the next cursor of the response before it, the walk
\* stops at the first response without a next cursor, and it returns every
\* record of the category, page after page, with no predicate applied.
FullListWalk ==
    op = "list" =>
        /\ \A m \in 1..Len(calls) :
              /\ calls[m].kind = "list"
              /\ calls[m].params.limit = LIST_PAGE_SIZE
              /\ calls[m].params.after =
                    IF m = 1 THEN None
                    ELSE HonestList(object_type, calls[m - 1].params).next
              /\ m > 1 => calls[m].params.after # None
        /\ (Len(calls) > 0 /\ Last(calls).ok) =>
              (pc = "list_page"
                  <=> HonestList(object_type, Last(calls).params).next # None)
        /\ (pc = "done" /\ (calls = <<>> \/ Last(calls).ok)) =>
              result = SortedSeq(store[object_type])

\* C21 witness: a walk of three answered requests returned the whole
\* category.
FullListWalkWitness ==
    /\ op = "list" /\ pc = "done"
    /\ Len(calls) = 3
    /\ calls[3].ok
    /\ Len(result) > 2 * LIST_PAGE_SIZE
    /\ result = SortedSeq(store[object_type])

----------------------------------------------------------------------------
(* Chunking of the batch deleter *)

\* indexes in calls of the bulk-archive calls, in the order they were sent
ArchiveCalls == {m \in 1..Len(calls) : calls[m].kind = "archive"}

\* the chunk a call of the batch deleter works on
ChunkOf(c) ==
    IF c.kind = "archive" THEN c.at \div BATCH_SIZE + 1 ELSE NumChunks(c.idx)

\* C22: the q-th bulk-archive call carries the q-th run of consecutive
\* records in input order, BATCH_SIZE of them unless it is the last run,
\* which has 1..BATCH_SIZE; the calls of a chunk (its bulk call first, then
\* its fallback deletes) all come before the bulk call of the next chunk;
\* and once the deleter has returned every input record is in exactly one
\* bulk-archive call.
Chunking ==
    op = "delete" =>
        /\ \A m \in ArchiveCalls :
              LET q == Cardinality({b \in ArchiveCalls : b <= m})
                  n == Len(records)
              IN  /\ q <= NumChunks(n)
                  /\ calls[m].at = (q - 1) * BATCH_SIZE
                  /\ calls[m].ids =
                        [p \in 1..Cardinality(ChunkPositions(n, q)) |->
                            records[(q - 1) * BATCH_SIZE + p]]
                  /\ Len(calls[m].ids) \in 1..BATCH_SIZE
                  /\ q < NumChunks(n) => Len(calls[m].ids) = BATCH_SIZE
        /\ \A m \in 1..Len(calls) : \A b \in ArchiveCalls :
              /\ b < m => ChunkOf(calls[b]) <= ChunkOf(calls[m])
              /\ m < b => ChunkOf(calls[m]) < ChunkOf(calls[b])
        /\ \A b \in ArchiveCalls : \A a \in ArchiveCalls :
              (a < b /\ ~calls[a].ok) =>
                  \A idx \in ChunkPositions(Len(records), ChunkOf(calls[a])) :
                      \E d \in (a + 1)..(b - 1) :
                          calls[d].kind = "delete" /\ calls[d].idx = idx
        /\ pc = "done" =>
              \A idx \in 1..Len(records) :
                  Cardinality({m \in ArchiveCalls :
                      idx \in (calls[m].at + 1)..(calls[m].at + Len(calls[m].ids))})
                      = 1

\* C22 witness: two full chunks and a last chunk of one record; the first
\* chunk's bulk call failed and its fallback deletes came before the second
\* chunk's bulk call.
ChunkingWitness ==
    /\ op = "delete" /\ pc = "done"
    /\ Len(records) = 2 * BATCH_SIZE + 1
    /\ Cardinality(ArchiveCalls) = 3
    /\ ~calls[1].ok
    /\ calls[BATCH_SIZE + 2].kind = "archive"
    /\ Len(Last(calls).ids) = 1

----------------------------------------------------------------------------
(* Properties of delete_all_records *)

\* C23: delete_all_records works on the categories contacts, companies,
\* deals, tickets, notes, emails, tasks, meetings, calls and on no other,
\* one after another in that order, and returns a map with exactly one
\* count for each of them.
AllCategoriesInOrder ==
    LET fixed == <<"contacts", "companies", "deals", "tickets", "notes",
                   "emails", "tasks", "meetings", "calls">>
    IN  op = "delete_all_records" =>
            /\ \A m \in 1..Len(calls) : calls[m].object_type \in Range(fixed)
            /\ \A m \in 1..Len(calls) : \A n \in m..Len(calls) :
                  PositionIn(fixed, calls[m].object_type)
                      <= PositionIn(fixed, calls[n].object_type)
            /\ pc # "raised"
            /\ pc = "done" =>
                  /\ \A k \in 1..Len(fixed) :
                        \E m \in 1..Len(calls) : calls[m].object_type = fixed[k]
                  /\ DOMAIN result = Range(fixed)
                  /\ \A c \in Range(fixed) :
                        result[c] \in 0..Cardinality(store[c])

\* C23 witness: every category was walked, and the two contacts and the one
\* deal of the store were counted.
AllCategoriesWitness ==
    /\ op = "delete_all_records" /\ pc = "done"
    /\ result["contacts"] = 2
    /\ result["deals"] = 1
    /\ result["calls"] = 0
    /\ Last(calls).object_type = "calls"

----------------------------------------------------------------------------
(* Retries of enumeration requests *)

\* whether a call is a request of one of the enumerators
IsEnumeration(c) == c.kind \in {"search", "list"}

\* whether two enumeration requests name the same path and carry the same
\* predicates and cursor
SameRequest(a, b) ==
    /\ a.kind = b.kind
    /\ a.object_type = b.object_type
    /\ IF a.kind = "search" THEN a.payload = b.payload ELSE a.params = b.params

\* C24 (as claimed): a failed enumeration request is followed by no further
\* enumeration request (the list walk returns, the search raises), and no
\* enumeration request is sent twice within one operation.
NoRequestTwice ==
    /\ \A m \in 1..Len(calls) :
          (IsEnumeration(calls[m]) /\ ~calls[m].ok) =>
              /\ \A n \in (m + 1)..Len(calls) : ~IsEnumeration(calls[n])
              /\ calls[m].kind = "search" => pc = "raised"
              /\ calls[m].kind = "list" => pc # "raised"
    /\ \A m \in 1..Len(calls) : \A n \in (m + 1)..Len(calls) :
          (IsEnumeration(calls[m]) /\ IsEnumeration(calls[n])) =>
              ~SameRequest(calls[m], calls[n])

----------------------------------------------------------------------------
(* Properties of HubspotClient *)

\* C25 (as claimed): a request returns normally exactly when the response is
\* OK; otherwise it raises the one error its outcome determines: 429 the
\* rate-limit error with the Retry-After value as an integer (none when the
\* header is absent), 409 the duplicate error with the duplicate info, any
\* other 4xx the client error with the status code, 500 and above the
\* server error, a transport failure the base error.
ErrorClassification ==
    (op \in {"get", "post", "put", "delete_request"} /\ pc # "request") =>
        IF outcome.transport_error
        THEN result.kind = "raised" /\ result.error = "HubspotError"
        ELSE IF outcome.status_code < 400
        THEN result.kind = "returned"
        ELSE /\ result.kind = "raised"
             /\ result.error =
                   CASE outcome.status_code = 429 -> "HubspotRateLimitError"
                     [] outcome.status_code = 409 -> "HubspotDuplicateError"
                     [] outcome.status_code \in 400..499
                            \ {409, 429} -> "HubspotClientError"
                     [] OTHER -> "HubspotServerError"
             /\ result.status_code = outcome.status_code
             /\ outcome.status_code = 429 =>
                   /\ ~outcome.retry_after.present => ~result.has_retry_after
                   /\ outcome.retry_after.text # <<>> => result.has_retry_after
                   /\ outcome.retry_after.text = <<"6", "0">> =>
                         result.retry_after = 60
             /\ outcome.status_code = 409 =>
                   (result.duplicate_info
                       <=> (outcome.json_body /\ outcome.duplicateProperties))

----------------------------------------------------------------------------
(* Properties of LoggerConfig *)

\* indexes in log_calls of the setup_logging calls
SetupCalls == {m \in 1..Len(log_calls) : log_calls[m].kind = "setup_logging"}

\* number of handlers of class cls on the logger
HandlerCount(cls) == Cardinality({k \in 1..Len(handlers) : handlers[k] = cls})

\* C26 (as claimed): after any sequence of calls, every construction has
\* returned the same instance, and once setup_logging has been called the
\* logger holds the handlers of the last setup_logging call only: one
\* stream handler, one file handler iff log_file was given, one syslog
\* handler iff syslog_address was given.
HandlersOfLastSetup ==
    op = "logger" =>
        /\ \A m \in 1..Len(log_calls) : \A n \in 1..Len(log_calls) :
              log_calls[m].instance = log_calls[n].instance
        /\ SetupCalls # {} =>
              LET last == log_calls[CHOOSE m \in SetupCalls :
                                       \A n \in SetupCalls : n <= m]
              IN  /\ HandlerCount("stream") = 1
                  /\ HandlerCount("file") = IF last.log_file.given THEN 1 ELSE 0
                  /\ HandlerCount("syslog") = IF last.syslog_address THEN 1 ELSE 0
                  /\ Len(handlers) = HandlerCount("stream")
                        + HandlerCount("file") + HandlerCount("syslog")

----------------------------------------------------------------------------
(* Properties of DataTransformer._apply_mapping *)

\* items of the mapping whose key matches the value: equal to its text, or
\* equal up to case when case_sensitive is not set
MatchingItems ==
    {k \in 1..Len(mapping) :
        IF case_sensitive
        THEN mapping[k].key = str_value(value)
        ELSE lower(mapping[k].key) = lower(str_value(value))}

WildcardItems == {k \in 1..Len(mapping) : mapping[k].key = Wildcard}

\* C27: _apply_mapping returns the mapped value of a matching key (matching
\* ignores case unless case_sensitive is set), otherwise the value of the
\* '*' key when present, otherwise the value itself; a missing value (NaN or
\* None) is returned unchanged and never mapped to the wildcard.
MappingLookup ==
    (op = "_apply_mapping" /\ pc = "done") =>
        IF isna(value)
        THEN result = value
        ELSE IF MatchingItems # {}
        THEN \E k \in MatchingItems : result = mapping[k].value
        ELSE IF WildcardItems # {}
        THEN \E k \in WildcardItems : result = mapping[k].value
        ELSE result = value

\* C27 witness: a value that differs from the key in case only was mapped
\* although the mapping also holds a wildcard.
MappingLookupWitness ==
    /\ op = "_apply_mapping"
    /\ pc = "done"
    /\ ~case_sensitive
    /\ value = StrValue(<<"o", "n">>)
    /\ mapping = << [key |-> <<"O", "N">>, value |-> StrValue(<<"1">>)],
                    [key |-> Wildcard, value |-> StrValue(<<"0">>)] >>
    /\ result = StrValue(<<"1">>)

----------------------------------------------------------------------------
(* Properties of the threshold *)

\* highest id of a set of ids, 0 for the empty set
MaxIdOf(S) == IF S = {} THEN 0 ELSE CHOOSE x \in S : \A y \in S : y <= x

\* C28 (as claimed): after each drained leg the threshold equals the highest
\* id among all the records returned so far in the search, for every order
\* in which the remote returns the records of a page.
ThresholdIsMaxSeen ==
    Len(legs) >= 1 => last_record_id = MaxIdOf(Range(all_records))

----------------------------------------------------------------------------
(* Properties of the requests of a leg *)

\* search requests that open a leg: those not preceded by the pause
\* between two pages
LegOpeners == {k \in 1..Len(calls) : calls[k].kind = "search" /\ calls[k].delay # 100}

\* the leg a search request belongs to
LegOf(k) == Cardinality({m \in LegOpeners : m <= k})

\* threshold of leg l: 0 for the first, else what the leg before handed back
ThresholdOf(l) == IF l = 1 THEN 0 ELSE legs[l - 1].last_id

\* C29: every request of leg k, first page or cursor-follow page, carries
\* the caller's predicates unchanged and in order plus exactly one
\* hs_object_id GT threshold_k predicate in a single AND group, the sort
\* hs_object_id ascending and the page size PAGE_LIMIT; the first request of
\* a leg carries no cursor; threshold predicates do not accumulate across
\* legs and the caller's predicate list is the same after the search.
LegRequestShape ==
    op = "search" =>
        /\ filters = << _build_property_exists_filter("email") >>
        /\ \A k \in 1..Len(calls) :
              calls[k].kind = "search" =>
                 LET p == calls[k].payload
                 IN  /\ Len(p.filterGroups) = 1
                     /\ p.filterGroups[1].filters
                          = filters \o << [propertyName |-> "hs_object_id",
                                           operator |-> "GT",
                                           value |-> ThresholdOf(LegOf(k))] >>
                     /\ p.sorts = << [propertyName |-> "hs_object_id",
                                      direction |-> "ASCENDING"] >>
                     /\ p.limit = PAGE_LIMIT
                     /\ k \in LegOpeners => p.after = None

\* C29 witness: the second leg of a search has sent a cursor-follow request
\* whose predicates are the caller's one and the threshold of that leg.
LegRequestShapeWitness ==
    /\ op = "search"
    /\ Len(calls) >= 1
    /\ Last(calls).kind = "search"
    /\ Last(calls).payload.after # None
    /\ LegOf(Len(calls)) = 2
    /\ Len(Last(calls).payload.filterGroups[1].filters) = Len(filters) + 1
    /\ IdFilter(Last(calls).payload).value = LEG_CAP

----------------------------------------------------------------------------
(* Termination of the enumerations *)

\* C30: for a finite store and a remote that answers consistently with it,
\* every search and every listing walk terminates, by returning or by
\* raising, after finitely many requests.
Termination == <>(pc \in {"done", "raised"})

\* C30 witness: a search over MaxId matching records has returned after
\* three legs, the first two stopped at the cap.
TerminationWitness ==
    /\ op = "search"
    /\ pc = "done"
    /\ Len(legs) = 3
    /\ Len(legs[1].records) = LEG_CAP
    /\ Len(legs[2].records) = LEG_CAP
    /\ Len(result) = MaxId

----------------------------------------------------------------------------
(* Order of the remote calls of a caller-facing operation *)

IsEnumerationCall(c) == c.kind \in {"search", "list"}
IsDeletionCall(c) == c.kind \in {"archive", "delete"}

\* C31: in a caller-facing operation, for each category every enumeration
\* request (listing or search) is issued before the first bulk-archive or
\* individual delete call of that category; the calls of a category are
\* consecutive and no call is issued for a category the loop has yet to
\* reach, so every call for category k precedes every call for category
\* k+1.  The calls are recorded one at a time, each with its answer: no two
\* are in flight at once.
EnumerateThenDelete ==
    /\ \A a, b \in 1..Len(calls) :
          (a < b /\ calls[a].object_type = calls[b].object_type
                 /\ IsDeletionCall(calls[a])) => IsDeletionCall(calls[b])
    /\ \A a, b, c \in 1..Len(calls) :
          (a < b /\ b < c /\ calls[a].object_type = calls[c].object_type)
              => calls[b].object_type = calls[a].object_type
    /\ \A a \in 1..Len(calls) : calls[a].object_type \notin Range(object_types)
    /\ \A a \in 1..Len(calls) :
          IsEnumerationCall(calls[a]) \/ IsDeletionCall(calls[a])

\* C31 witness: delete_by_date_criteria over contacts and companies has
\* returned after searching and archiving contacts, then searching and
\* archiving companies.
EnumerateThenDeleteWitness ==
    /\ op = "delete_by_date_criteria"
    /\ pc = "done"
    /\ \E a, b, c, d \in 1..Len(calls) :
          /\ a < b /\ b < c /\ c < d
          /\ calls[a].kind = "search" /\ calls[a].object_type = "contacts"
          /\ calls[b].kind = "archive" /\ calls[b].object_type = "contacts"
          /\ calls[c].kind = "search" /\ calls[c].object_type = "companies"
          /\ calls[d].kind = "archive" /\ calls[d].object_type = "companies"

----------------------------------------------------------------------------
(* Bound of the confirmed count *)

\* positions of records covered by the bulk calls sent so far
StartedPositions ==
    UNION {(calls[b].at + 1)..(calls[b].at + Len(calls[b].ids)) :
           b \in {m \in 1..Len(calls) : calls[m].kind = "archive"}}

\* positions confirmed by a bulk call that succeeded
BulkConfirmed ==
    UNION {(calls[b].at + 1)..(calls[b].at + Len(calls[b].ids)) :
           b \in {m \in 1..Len(calls) : calls[m].kind = "archive" /\ calls[m].ok}}

\* individual deletes that succeeded
IndivConfirmed == {m \in 1..Len(calls) : calls[m].kind = "delete" /\ calls[m].ok}

\* C32: at every point of _delete_records the running confirmed count is at
\* most the number of records in the chunks started so far; each input
\* record adds at most 1 to it, a record of a failed chunk being counted
\* only by its own successful individual delete; the returned count lies
\* between 0 and len(records).
ConfirmedCountBound ==
    op = "delete" =>
        /\ deleted_count <= Cardinality(StartedPositions)
        /\ StartedPositions \subseteq 1..Len(records)
        /\ deleted_count = Cardinality(BulkConfirmed) + Cardinality(IndivConfirmed)
        /\ \A m, n \in IndivConfirmed :
              /\ calls[m].idx \notin BulkConfirmed
              /\ calls[m].idx \in StartedPositions
              /\ calls[m].idx = calls[n].idx => m = n
        /\ pc = "done" => result \in 0..Len(records)

\* C32 witness: the deleter has returned less than len(records): of a failed
\* chunk one record was deleted individually and one was not.
ConfirmedCountBoundWitness ==
    /\ op = "delete"
    /\ pc = "done"
    /\ Len(records) = 2 * BATCH_SIZE
    /\ Cardinality(BulkConfirmed) = BATCH_SIZE
    /\ Cardinality(IndivConfirmed) = 1
    /\ result = BATCH_SIZE + 1

----------------------------------------------------------------------------
(* A failed search in delete_by_date_criteria *)

FailedSearches == {m \in 1..Len(calls) : calls[m].kind = "search" /\ ~calls[m].ok}

\* C33: in delete_by_date_criteria over several categories, a classified
\* remote error during the search of category k propagates to the caller:
\* the failed request is the last remote call, so no request of any kind is
\* issued for category k+1 or later, nor any call that would undo the
\* deletions of the categories before k; the operation ends with the error
\* and returns no outcome map, and category k itself gets no count.
DateSearchErrorPropagates ==
    (op = "delete_by_date_criteria" /\ FailedSearches # {}) =>
        /\ FailedSearches = {Len(calls)}
        /\ pc = "raised"
        /\ result = "HubspotError"
        /\ \A m \in 1..Len(calls) : calls[m].object_type \notin Range(object_types)
        /\ \A c \in DOMAIN deletion_counts : c # Last(calls).object_type

\* C33 witness: with every category to process, the search of the second
\* one failed after contacts had been archived; seven categories were never
\* reached.
DateSearchErrorWitness ==
    /\ op = "delete_by_date_criteria"
    /\ pc = "raised"
    /\ result = "HubspotError"
    /\ Len(calls) >= 3
    /\ Last(calls).object_type = "companies"
    /\ ~Last(calls).ok
    /\ \E m \in 1..Len(calls) :
          calls[m].kind = "archive" /\ calls[m].ok /\ calls[m].object_type = "contacts"
    /\ Len(object_types) = 7

----------------------------------------------------------------------------
(* A failed listing request in delete_all_records *)

FailedLists == {m \in 1..Len(calls) : calls[m].kind = "list" /\ ~calls[m].ok}

\* the records of the pages that the walk of the failed request m had
\* fetched before it
PartialBefore(m) ==
    LET c == calls[m].object_type
        pages == {k \in 1..(m - 1) : calls[k].kind = "list"
                                     /\ calls[k].object_type = c}
        all == SortedSeq(store[c])
    IN  SubSeq(all, 1, Min(Len(all), Cardinality(pages) * LIST_PAGE_SIZE))

\* indexes of the bulk-archive calls of category c
ArchiveCallsFor(c) ==
    {k \in 1..Len(calls) : calls[k].kind = "archive" /\ calls[k].object_type = c}

\* C34: in delete_all_records, and so in the delete_objects_by_type call
\* it makes for each category, a classified remote error during the listing
\* of a category does not abort the operation: the records listed before
\* the error are handed to the batch deleter, the category's count is
\* reported, and every later category is still enumerated and deleted.
ListErrorDoesNotAbort ==
    op = "delete_all_records" =>
        /\ pc # "raised"
        /\ \A m \in FailedLists :
              LET c == calls[m].object_type
                  partial == PartialBefore(m)
              IN  /\ \A k \in (m + 1)..Len(calls) :
                        ~(calls[k].kind = "list" /\ calls[k].object_type = c)
                  /\ (object_type = c /\ pc \in {"del_bulk", "del_indiv", "del_returned"})
                        => records = partial
                  /\ \A k \in ArchiveCallsFor(c) :
                        calls[k].ids = Batch(partial, calls[k].at)
                  /\ (m < Len(calls) /\ partial # <<>>) =>
                        (calls[m + 1].kind = "archive" /\ calls[m + 1].object_type = c
                         /\ calls[m + 1].at = 0)
                  /\ pc = "done" =>
                        /\ c \in DOMAIN result
                        /\ result[c] \in 0..Len(partial)
                        /\ {calls[k].at : k \in ArchiveCallsFor(c)}
                              = {(n - 1) * BATCH_SIZE : n \in 1..NumChunks(Len(partial))}
                        /\ \A l \in 1..Len(_get_all_object_types) :
                              LET later == _get_all_object_types[l]
                              IN  l > PositionIn(_get_all_object_types, c) =>
                                    /\ \E k \in (m + 1)..Len(calls) :
                                          calls[k].kind = "list"
                                          /\ calls[k].object_type = later
                                    /\ later \in DOMAIN result
                                    /\ (store[later] # {}
                                        /\ \A k \in 1..Len(calls) :
                                              calls[k].object_type = later => calls[k].ok)
                                          => result[later] = Cardinality(store[later])

\* C34 witness: the second listing request for contacts failed; the page
\* listed before it was archived and counted, and the deal of the store was
\* listed and archived afterwards.
ListErrorWitness ==
    /\ op = "delete_all_records"
    /\ pc = "done"
    /\ Len(calls) >= 3
    /\ calls[1].kind = "list" /\ calls[1].ok
    /\ calls[2].kind = "list" /\ ~calls[2].ok
    /\ calls[3].kind = "archive" /\ calls[3].ok
    /\ calls[3].ids = <<1, 2>>
    /\ result["contacts"] = LIST_PAGE_SIZE
    /\ result["deals"] = 1

----------------------------------------------------------------------------
(* delete_by_date_criteria without a date *)

\* C35: delete_by_date_criteria called with neither created_after nor
\* modified_after issues no remote call at all and reports 0 for every
\* category it processes: the empty date criterion never becomes an
\* unfiltered search that deletes every record.
NoCriteriaDeletesNothing ==
    (/\ op = "delete_by_date_criteria"
     /\ ~created_after.given
     /\ ~modified_after.given) =>
        /\ calls = <<>>
        /\ pc \in {"date_loop", "done"}
        /\ \A c \in DOMAIN deletion_counts : deletion_counts[c] = 0
        /\ \E given \in ObjectTypesArgs : \E n \in 0..Len(given) :
              /\ object_types = SubSeq(given, n + 1, Len(given))
              /\ DOMAIN deletion_counts = Range(SubSeq(given, 1, n))
        /\ pc = "done" =>
              /\ object_types = <<>>
              /\ result = deletion_counts

\* C35 witness: over contacts and companies, both with matching records in
\* the store, the operation has returned 0 and 0 without a remote call.
NoCriteriaWitness ==
    /\ op = "delete_by_date_criteria"
    /\ ~created_after.given
    /\ ~modified_after.given
    /\ pc = "done"
    /\ calls = <<>>
    /\ matching["contacts"] # {}
    /\ matching["companies"] # {}
    /\ DOMAIN result = {"contacts", "companies"}
    /\ result["contacts"] = 0
    /\ result["companies"] = 0

----------------------------------------------------------------------------
(* Translation of the date criteria *)

\* the number a decimal text denotes, as the remote reads a predicate value
RECURSIVE FromDigits(_)
FromDigits(digits) ==
    IF digits = <<>> THEN 0
    ELSE 10 * FromDigits(SubSeq(digits, 1, Len(digits) - 1)) + digits[Len(digits)]

ValueOf(text) == IF text.negative THEN 0 - FromDigits(text.digits)
                 ELSE FromDigits(text.digits)

\* whether the remote selects a record whose date property is date_ms
SelectsDate(f, date_ms) ==
    CASE f.operator = "GTE" -> date_ms >= ValueOf(f.value)
      [] f.operator = "GT" -> date_ms > ValueOf(f.value)
      [] OTHER -> FALSE

\* milliseconds between the epoch and the instant of a timezone-aware
\* timestamp
EpochMillis(timestamp) == (timestamp.wall - timestamp.offset) * 60 * 1000

\* the timestamps given, each with the date property it bounds
GivenCriteria ==
    (IF created_after.given
     THEN << [property |-> "createdate", timestamp |-> created_after] >>
     ELSE <<>>)
    \o (IF modified_after.given
        THEN << [property |-> "lastmodifieddate", timestamp |-> modified_after] >>
        ELSE <<>>)

\* C36: created_after becomes a GTE predicate on createdate and
\* modified_after a GTE predicate on lastmodifieddate, each with the UTC
\* epoch-millisecond value of its timestamp; when both are given both
\* predicates are in the one AND group of every request of every leg; a
\* record whose date equals the boundary timestamp exactly is selected.
DateRangeTranslation ==
    op = "delete_by_date_criteria" =>
        \A m \in 1..Len(calls) :
            calls[m].kind = "search" =>
                LET groups == calls[m].payload.filterGroups
                    fs == groups[1].filters
                IN  /\ Len(groups) = 1
                    /\ Len(fs) = Len(GivenCriteria) + 1
                    /\ \A k \in 1..Len(GivenCriteria) :
                          /\ fs[k].propertyName = GivenCriteria[k].property
                          /\ fs[k].operator = "GTE"
                          /\ ValueOf(fs[k].value)
                                = EpochMillis(GivenCriteria[k].timestamp)
                          /\ SelectsDate(fs[k], EpochMillis(GivenCriteria[k].timestamp))
                          /\ ~SelectsDate(fs[k], EpochMillis(GivenCriteria[k].timestamp) - 1)

\* C36 witness: with both timestamps given, the second leg of the search for
\* contacts has sent a request with the two date predicates and the
\* threshold predicate.
DateRangeWitness ==
    /\ op = "delete_by_date_criteria"
    /\ created_after.given
    /\ modified_after.given
    /\ Len(calls) >= 1
    /\ Last(calls).kind = "search"
    /\ Len(Last(calls).payload.filterGroups[1].filters) = 3
    /\ Last(calls).payload.filterGroups[1].filters[1].propertyName = "createdate"
    /\ Last(calls).payload.filterGroups[1].filters[2].propertyName = "lastmodifieddate"
    /\ IdFilter(Last(calls).payload).value = LEG_CAP

----------------------------------------------------------------------------
(* Lifecycle of the engine singleton *)

ModuleOperations ==
    {"delete_all_records", "delete_objects_by_type", "delete_by_date_criteria",
     "delete_by_query", "delete_from_csv", "delete_by_property"}

\* C37: a module-level operation called before initialize_deleter raises
\* RuntimeError without issuing a remote call; after any sequence of
\* initialize_deleter calls the operation runs on the instance created by
\* the most recent of them.
EngineSingleton ==
    /\ op \in ModuleOperations \cup {"module"}
    /\ op = "module" => (calls = <<>> /\ pc = "module")
    /\ (op \in ModuleOperations /\ constructed = 0) =>
          /\ pc = "raised"
          /\ result = "RuntimeError"
          /\ calls = <<>>
    /\ (op \in ModuleOperations /\ constructed > 0) =>
          /\ self = constructed
          /\ ~(pc = "raised" /\ result = "RuntimeError")

\* C37 witness: after two initialize_deleter calls delete_by_property has
\* run on the second instance and archived the contact.
EngineSingletonWitness ==
    /\ op = "delete_by_property"
    /\ pc = "done"
    /\ constructed = 2
    /\ self = 2
    /\ _deleter_instance = 2
    /\ result = 1
    /\ Len(calls) = 2

====
